---------------------------- MODULE Spec2Model ----------------------------
(***************************************************************************)
(* A state-machine model of torchreid.engine.Engine (engine.py): the       *)
(* run() epoch loop, the train() batch loop, the learning-rate-finder      *)
(* trial set-up with its backup/restore of the main model, and             *)
(* save_model() with its latest/best links.                                *)
(*                                                                         *)
(* Numbers.  Accuracies are integers in units of 0.00001, so that          *)
(* np.round(accuracy, 4) is a real rounding (to a multiple of 10).         *)
(* Learning rates are integers in units of 0.0000001, so that round(lr, 6) *)
(* is a real rounding (to a multiple of 10).  Averages are kept as         *)
(* <<sum, count>> pairs and compared by cross-multiplication.              *)
(***************************************************************************)
EXTENDS Integers, Sequences, FiniteSets, TLC

\* ------------------------------------------------------------- bounds
\* len(self.train_loader): batches per epoch
NumBatches == 2
\* largest max_epoch a caller passes to run()
MaxEpochs == 4
\* largest max_epoch in the runs that vary the schedulers and the EMA
SchedEpochs == 2
\* largest max_epoch of a trial run of the learning-rate search
FinderEpochs == 1
\* largest max_epoch in the runs that freeze the aux models
FreezeEpochs == 3
\* largest epoch number used as a bound of an EpochIntervalToValue
MaxBound == 2
\* run() calls made on one Engine
MaxRuns == 2
\* save_model() calls in the step-wise checkpoint specification
MaxSaves == 3
\* register_model() and get_model_names() calls made on one Engine by its user
MaxRegistryCalls == 3
\* images in a batch given to _apply_batch_augmentation
BatchSize == 2
\* the two spatial sizes of a batch, imgs.size()[2] and imgs.size()[3]
ImgW == 4
ImgH == 4
\* the Beta draws of lam are the multiples of 1 / LamDen in [0, 1]
LamDen == 4
\* _apply_batch_augmentation() calls made on one Engine
MaxAugCalls == 2

\* ------------------------------------------------------ program constants
\* Engine.__init__(seed=5)
EngineSeed == 5
\* run(initial_seed=5)
InitialSeed == 5
\* the learning rate the main optimizer is built with (initial_lr)
InitLr == 30

\* the learning rate a scheduler anneals to
AnnealedLr == InitLr \div 10

MAIN == "main_model"
AUX == "aux_model_1"

\* model names given by __init__: 'main_model', then f'aux_model_{model_id}'
ModelName(model_id) == IF model_id = 0 THEN MAIN ELSE AUX

\* ------------------------------------------------------------ value sets
AccVals == {0, 6, 14}
LrVals == {10, 14, 20}
FiniteLoss == {1, 2}
LossVals == {<<"finite", v>> : v \in FiniteLoss} \cup {<<"nan", 0>>, <<"inf", 0>>}
AuxLossVals == {<<"finite", 1>>, <<"nan", 0>>, <<"inf", 0>>}
SchedKinds == {"None", "MultiStepLR", "ReduceLROnPlateauV2", "WarmupScheduler",
               "OneCycleLR", "CosineAnnealingCycleRestart"}
FinderModes == {"fast_ai", "TPE"}
\* what compression_ctrl.compression_stage() can return
CompressionStages == {"FULLY_COMPRESSED", "PARTIALLY_COMPRESSED"}

\* ------------------------------------------------------------ arithmetic
\* round half to even of x / 10, times 10 (np.round and round on decimals)
RoundTo10(x) ==
    LET q == x \div 10
        r == x % 10
    IN  IF r < 5 THEN 10 * q
        ELSE IF r > 5 THEN 10 * (q + 1)
        ELSE IF q % 2 = 0 THEN 10 * q ELSE 10 * (q + 1)

\* np.round(accuracy, 4)
Round4(a) == RoundTo10(a)

\* round(lr, 6)
Round6(lr) == RoundTo10(lr)

\* AverageMeter: [sum, count]; avg is 0 before the first update
NewMeter == [sum |-> 0, count |-> 0]

MeterUpdate(m, v) == [sum |-> m.sum + v, count |-> m.count + 1]

\* the meter's avg as a fraction <<numerator, denominator>>
MeterAvg(m) == IF m.count = 0 THEN <<0, 1>> ELSE <<m.sum, m.count>>

\* a comparison that lets every value through: a plain running average
GeqAvgAlways(v, avg) == TRUE

\* v >= avg, for an integer v and a fraction avg
GeqAvg(v, avg) == v * avg[2] >= avg[1]

\* run(): if accuracy >= test_acc.avg: test_acc.update(accuracy)
TrackerUpdate(meter, acc) ==
    IF GeqAvg(acc, MeterAvg(meter)) THEN MeterUpdate(meter, acc) ELSE meter

\* the tracker after the accuracies of seq have been fed to it one epoch at a time
RECURSIVE TrackerFeed(_, _)
TrackerFeed(meter, seq) ==
    IF seq = <<>> THEN meter
    ELSE TrackerFeed(TrackerUpdate(meter, Head(seq)), Tail(seq))


\* ------------------------------------------------------------------ state
VARIABLES
    \* Engine configuration, fixed by __init__
    models,                \* registered model names, in registration order
    scheds,                \* name -> kind of the scheduler registered for it
    per_batch_annealing,
    use_ema_decay,
    early_stopping,
    target_metric,
    save_all_chkpts,
    compression_ctrl,      \* "None", or "ctrl" when a compression controller is attached
    hook_overridden,       \* a derived Engine overrides exit_on_plateau_and_choose_best
    should_freeze_aux_models,
    epoch_interval_for_aux_model_freeze,  \* <<>> for None, or <<first, last,
                           \* value_inside, value_outside>>; a bound is <<>> for None, <<n>> for n
    model_names_to_freeze,
    \* Engine state
    state_dict,            \* the main model's weights: updates applied to them
    optim,                 \* the main optimizer: [lr, steps]
    ema_model,             \* the EMA shadow: updates folded into it
    best_metric,
    param_history,
    cached,                \* state_cacher.cached: key -> stored state
    rng,                   \* the random generator: [seed, draws]
    mode,                  \* name -> [training, grad]: the module's mode and whether
                           \* its parameters have requires_grad set
    decision,              \* the last answer of _should_freeze_aux_models: [epoch, res],
                           \* res <<b>> for a returned b, <<>> for a raised RuntimeError
    files,                 \* checkpoint files on disk: path -> content
    links,                 \* symbolic links on disk: link name -> path
    \* one run() call
    pc,
    result,                \* how the last run() call ended
    runs,                  \* run() calls made so far
    args,                  \* the arguments of the current run() call
    epoch,
    batch_idx,
    accuracy,
    should_save_ema_model,
    test_acc,              \* run()'s AverageMeter of test accuracy
    losses,                \* train()'s meter of the 'loss' entry
    stopSig,               \* what stop_callback.check_stop() reads
    \* what the collaborators saw during the current run() call
    calls,                 \* counters of the calls made on collaborators
    schedLog,              \* name -> steps made on its scheduler and the last argument
    epochLog,              \* what the current epoch has done so far
    flags,                 \* divergence / stop observed in this run
    seen,                  \* what has happened on this Engine over all its runs
    \* one save_model() call taken step by step
    sv,
    \* the registries self.models, self.optims, self.scheds and self.main_model_name
    registry,              \* each field <<>> while the attribute is not set, <<v>> once
                           \* it holds v; a registry is an OrderedDict
    regLog,                \* the last register_model / get_model_names call and its outcome
    \* batch augmentation
    aug_type,
    alpha,                 \* only its sign is read here
    aug_prob,              \* in tenths
    lam,                   \* <<>> for None, <<fraction>> with fraction = <<num, den>>
    aug_index,             \* <<>> for None, <<permutation>>
    augLog                 \* the last _apply_batch_augmentation call: its draws and
                           \* the batch it returned

cfgVars == <<models, scheds, per_batch_annealing, use_ema_decay, early_stopping,
             target_metric, save_all_chkpts, compression_ctrl, hook_overridden,
             should_freeze_aux_models, epoch_interval_for_aux_model_freeze,
             model_names_to_freeze>>
modeVars == <<mode, decision>>
engVars == <<state_dict, optim, ema_model, best_metric, param_history, cached, rng>>
fsVars == <<files, links>>
runVars == <<pc, result, runs, args, epoch, batch_idx, accuracy,
             should_save_ema_model, test_acc, losses, stopSig>>
logVars == <<calls, schedLog, epochLog, flags, seen>>
sideVars == <<registry, regLog, aug_type, alpha, aug_prob, lam, aug_index, augLog>>
vars == <<cfgVars, engVars, modeVars, fsVars, runVars, logVars, sv, sideVars>>

\* ---------------------------------------------------------- small helpers
main_model_name == registry.main_model_name[1]

Names == {models[i] : i \in 1..Len(models)}

\* isinstance(sched, (CosineAnnealingCycleRestart, OneCycleLR))
IsPerBatchKind(kind) == kind \in {"CosineAnnealingCycleRestart", "OneCycleLR"}

\* isinstance(sched, (ReduceLROnPlateauV2, WarmupScheduler))
TakesMetric(kind) == kind \in {"ReduceLROnPlateauV2", "WarmupScheduler"}

\* a divergence check that forgets the infinite loss
IsNanOnly(loss) == loss[1] = "nan"

\* math.isnan(last_main_loss) or math.isinf(last_main_loss)
IsNanOrInf(loss) == loss[1] = "nan" \/ loss[1] = "inf"

\* a reseeding that leaves the epoch out
EpochSeedBaseOnly(base, e) == base

\* run(): np.random.seed(initial_seed + self.epoch)
EpochSeed(base, e) == base + e

\* a generator freshly seeded
Seeded(seed) == [seed |-> seed, draws |-> 0]

\* set_random_seed(seed)
set_random_seed(seed) == Seeded(seed)

\* StateCacher.store / retrieve (in memory): the stored copy is kept until replaced
CacheStore(c, key, v) == [k \in (DOMAIN c) \cup {key} |-> IF k = key THEN v ELSE c[k]]

CacheHas(c, key) == key \in DOMAIN c

CacheRetrieve(c, key) == c[key]

\* The part of the Engine that backup_model / restore_model / configure_lr_finder
\* read and write, as one record.
Eng == [state_dict |-> state_dict, optim |-> optim, cached |-> cached,
        param_history |-> param_history, rng |-> rng, raised |-> "none"]

backup_model(E) ==
    [E EXCEPT !.cached = CacheStore(CacheStore(E.cached, "model", E.state_dict),
                                    "optimizer", E.optim)]

restore_model(E) ==
    IF ~(CacheHas(E.cached, "model") /\ CacheHas(E.cached, "optimizer"))
    THEN [E EXCEPT !.raised = "KeyError"]
    ELSE [E EXCEPT !.state_dict = CacheRetrieve(E.cached, "model"),
                   !.optim = CacheRetrieve(E.cached, "optimizer"),
                   !.rng = set_random_seed(EngineSeed)]

\* a duplicate test on the value the optimizer is given, not on the proposal
AlreadyTriedRounded(lr, history) == Round6(lr) \in history

\* lr in self.param_history
AlreadyTried(lr, history) == lr \in history

\* trial is <<>> for None, <<lr>> for a trial whose suggest_float returns lr
configure_lr_finder(E, trial) ==
    IF trial = <<>> THEN E
    ELSE IF AlreadyTried(trial[1], E.param_history)
    THEN LET R == restore_model(E)
         IN  IF R.raised = "none" THEN [R EXCEPT !.raised = "TrialPruned"] ELSE R
    ELSE [E EXCEPT !.param_history = @ \cup {trial[1]},
                   !.optim.lr = Round6(trial[1])]

\* a head of run() that configures the trial and takes no snapshot
FinderSetupNoBackup(E, lr_finder, trial) ==
    IF lr_finder = "none" THEN E ELSE configure_lr_finder(E, trial)

\* the head of run(): "if lr_finder: configure_lr_finder(...); backup_model()"
FinderSetup(E, lr_finder, trial) ==
    IF lr_finder = "none" THEN E
    ELSE LET C == configure_lr_finder(E, trial)
         IN  IF C.raised # "none" THEN C ELSE backup_model(C)

\* ------------------------------------------------------------ registries
\* An OrderedDict is the sequence of its <<key, value>> pairs in insertion order.
Keys(od) == [i \in 1..Len(od) |-> od[i][1]]

\* an assignment that moves an existing key to the end
OdSetAtEnd(od, k, v) ==
    LET Other(e) == e[1] # k
    IN  Append(SelectSeq(od, Other), <<k, v>>)

\* od[k] = v: a new key is appended, an existing key keeps its place
OdSet(od, k, v) ==
    IF \E i \in 1..Len(od) : od[i][1] = k
    THEN [i \in 1..Len(od) |-> IF od[i][1] = k THEN <<k, v>> ELSE od[i]]
    ELSE Append(od, <<k, v>>)

\* the Engine before Engine.__init__ has run: none of the attributes exists
NoRegistry == [models |-> <<>>, optims |-> <<>>, scheds |-> <<>>,
               main_model_name |-> <<>>]

\* a registration that creates a registry that is not there
register_model_unchecked(R, name, model, opt, sched) ==
    LET Od(x) == IF x = <<>> THEN <<>> ELSE x[1]
    IN  [reg |-> [R EXCEPT !.models = <<OdSet(Od(@), name, model)>>,
                           !.optims = <<OdSet(Od(@), name, opt)>>,
                           !.scheds = <<OdSet(Od(@), name, sched)>>],
         raised |-> "none"]

\* Engine.register_model(name, model, optim, sched): [reg, raised]
register_model(R, name, model, opt, sched) ==
    IF R.models = <<>> \/ R.optims = <<>> \/ R.scheds = <<>>
    THEN [reg |-> R, raised |-> "AttributeError"]
    ELSE [reg |-> [R EXCEPT !.models = <<OdSet(@[1], name, model)>>,
                            !.optims = <<OdSet(@[1], name, opt)>>,
                            !.scheds = <<OdSet(@[1], name, sched)>>],
          raised |-> "none"]

\* the names argument of get_model_names: <<>> for None, <<"list", seq>> for a
\* list of names, <<"name", n>> for a single name
Requested(names) == IF names[1] = "list" THEN names[2] ELSE <<names[2]>>

\* a lookup that returns the requested names without looking at the registry
get_model_names_unchecked(R, names) ==
    IF R.models = <<>> THEN <<"AttributeError", <<>>>>
    ELSE IF names = <<>> THEN <<"ok", Keys(R.models[1])>>
    ELSE <<"ok", Requested(names)>>

\* Engine.get_model_names(names): <<"ok", the list returned>>, or the exception
\* raised with an empty list
get_model_names(R, names) ==
    IF R.models = <<>> THEN <<"AttributeError", <<>>>>
    ELSE LET names_real == Keys(R.models[1])
         IN  IF names = <<>> THEN <<"ok", names_real>>
             ELSE IF \A i \in 1..Len(Requested(names)) :
                        \E j \in 1..Len(names_real) : names_real[j] = Requested(names)[i]
             THEN <<"ok", Requested(names)>>
             ELSE <<"AssertionError", <<>>>>

\* Engine.__init__, lines 99-101 and 122-144: the empty registries, one
\* register_model call per model of the list ms, then main_model_name
RECURSIVE RegisterAll(_, _, _, _)
RegisterAll(R, ms, kinds, i) ==
    IF i > Len(ms) THEN R
    ELSE RegisterAll(register_model(R, ms[i], i - 1, i - 1, kinds[ms[i]]).reg,
                     ms, kinds, i + 1)

Registered(ms, kinds) ==
    LET R == RegisterAll([models |-> << <<>> >>, optims |-> << <<>> >>,
                          scheds |-> << <<>> >>, main_model_name |-> <<>>],
                         ms, kinds, 1)
    IN  [R EXCEPT !.main_model_name = <<get_model_names(R, <<>>)[2][1]>>]

\* ------------------------------------------------------ batch augmentation
Pixels == (0..(ImgW - 1)) \X (0..(ImgH - 1))

\* A batch: sample -> pixel -> <<a, b, w>>, the pixel being w / LamDen of the
\* input batch's sample a plus the rest of its sample b at that place.  The
\* batch a caller passes in holds every sample as it is.
InputBatch == [i \in 1..BatchSize |-> [p \in Pixels |-> <<i, i, LamDen>>]]

\* np.clip(v, lo, hi)
Clip(v, lo, hi) == IF v < lo THEN lo ELSE IF v > hi THEN hi ELSE v

\* np.int(W * np.sqrt(1. - lam)) for lam = lamNum / LamDen
CutSize(W, lamNum) ==
    CHOOSE k \in 0..W : /\ k * k * LamDen <= W * W * (LamDen - lamNum)
                        /\ (k + 1) * (k + 1) * LamDen > W * W * (LamDen - lamNum)

\* a box that is not clipped to the image
rand_bbox_unclipped(size, lamNum, cx, cy) ==
    LET cut_w == CutSize(size[3], lamNum)
        cut_h == CutSize(size[4], lamNum)
    IN  [bbx1 |-> cx - cut_w \div 2, bby1 |-> cy - cut_h \div 2,
         bbx2 |-> cx + cut_w \div 2, bby2 |-> cy + cut_h \div 2]

\* rand_bbox(size, lam), with the centre it draws: cx = np.random.randint(W),
\* cy = np.random.randint(H)
rand_bbox(size, lamNum, cx, cy) ==
    LET W == size[3]
        H == size[4]
        cut_w == CutSize(W, lamNum)
        cut_h == CutSize(H, lamNum)
    IN  [bbx1 |-> Clip(cx - cut_w \div 2, 0, W), bby1 |-> Clip(cy - cut_h \div 2, 0, H),
         bbx2 |-> Clip(cx + cut_w \div 2, 0, W), bby2 |-> Clip(cy + cut_h \div 2, 0, H)]

\* sample_mask(alpha, decay_power, shape): a binary mask, given as the set of the
\* pixels where it is 1, and lam, its fill fraction
sample_mask(mask) == [lam |-> <<Cardinality(mask), ImgW * ImgH>>, fmask |-> mask]

NoBox == [bbx1 |-> 0, bby1 |-> 0, bbx2 |-> 0, bby2 |-> 0]

\* a skipped augmentation that clears the permutation only
NotAppliedKeepsLam(S, imgs) ==
    [lam |-> S.lam, aug_index |-> <<>>, imgs |-> imgs, box |-> NoBox]

\* the else branch of each mode: self.aug_index = None; self.lam = None
NotApplied(S, imgs) ==
    [lam |-> <<>>, aug_index |-> <<>>, imgs |-> imgs, box |-> NoBox]

\* Engine._apply_batch_augmentation(imgs) on the Engine fields S = [aug_type,
\* alpha, aug_prob, lam, aug_index], with the values d it draws: r
\* (np.random.rand, in tenths), lam (np.random.beta, in 1 / LamDen), index
\* (torch.randperm), cx and cy (rand_bbox), mask (sample_mask).  The result is
\* [lam, aug_index] as the call leaves them, the batch returned and the box used.
apply_batch_augmentation(S, imgs, d) ==
    LET applied == S.alpha > 0 /\ d.r <= S.aug_prob
        size == <<BatchSize, 3, ImgW, ImgH>>
    IN  IF S.aug_type = "fmix"
        THEN IF applied
             THEN LET m == sample_mask(d.mask)
                  IN  [lam |-> <<m.lam>>, aug_index |-> <<d.index>>,
                       imgs |-> [i \in 1..BatchSize |-> [p \in Pixels |->
                                    IF p \in m.fmask THEN imgs[i][p]
                                    ELSE imgs[d.index[i]][p]]],
                       box |-> NoBox]
             ELSE NotApplied(S, imgs)
        ELSE IF S.aug_type = "mixup"
        THEN IF applied
             THEN [lam |-> << <<d.lam, LamDen>> >>, aug_index |-> <<d.index>>,
                   imgs |-> [i \in 1..BatchSize |-> [p \in Pixels |->
                                <<imgs[i][p][1], imgs[d.index[i]][p][1], d.lam>>]],
                   box |-> NoBox]
             ELSE NotApplied(S, imgs)
        ELSE IF S.aug_type = "cutmix"
        THEN IF applied
             THEN LET b == rand_bbox(size, d.lam, d.cx, d.cy)
                      area == (b.bbx2 - b.bbx1) * (b.bby2 - b.bby1)
                  IN  [lam |-> << <<size[4] * size[3] - area, size[4] * size[3]>> >>,
                       aug_index |-> <<d.index>>,
                       imgs |-> [i \in 1..BatchSize |-> [p \in Pixels |->
                                    IF /\ b.bbx1 <= p[1] /\ p[1] < b.bbx2
                                       /\ b.bby1 <= p[2] /\ p[2] < b.bby2
                                    THEN imgs[d.index[i]][p] ELSE imgs[i][p]]],
                       box |-> b]
             ELSE NotApplied(S, imgs)
        ELSE [lam |-> S.lam, aug_index |-> S.aug_index, imgs |-> imgs, box |-> NoBox]

\* --------------------------------------------------- freezing aux models
\* an interval test that takes the first epoch of the interval as outside
get_cur_action_first_excluded(epoch_interval, e) ==
    IF epoch_interval[1] = <<>> /\ epoch_interval[2] = <<>> THEN <<>>
    ELSE IF epoch_interval[1] # <<>> /\ e <= epoch_interval[1][1]
    THEN <<epoch_interval[4]>>
    ELSE IF epoch_interval[2] # <<>> /\ e > epoch_interval[2][1]
    THEN <<epoch_interval[4]>>
    ELSE <<epoch_interval[3]>>

\* _get_cur_action_from_epoch_interval(epoch_interval, epoch): <<value>> for a
\* returned value, <<>> for the RuntimeError raised when both bounds are None
get_cur_action_from_epoch_interval(epoch_interval, e) ==
    IF epoch_interval[1] = <<>> /\ epoch_interval[2] = <<>> THEN <<>>
    ELSE IF epoch_interval[1] # <<>> /\ e < epoch_interval[1][1]
    THEN <<epoch_interval[4]>>
    ELSE IF epoch_interval[2] # <<>> /\ e > epoch_interval[2][1]
    THEN <<epoch_interval[4]>>
    ELSE <<epoch_interval[3]>>

\* Engine._should_freeze_aux_models(epoch)
should_freeze_aux_models_at(e) ==
    IF ~should_freeze_aux_models THEN <<FALSE>>
    ELSE IF epoch_interval_for_aux_model_freeze = <<>> THEN <<TRUE>>
    ELSE get_cur_action_from_epoch_interval(epoch_interval_for_aux_model_freeze, e)

\* set_model_mode(m): train() or eval() on every registered model
set_model_mode(md, training) ==
    [n \in DOMAIN md |-> [md[n] EXCEPT !.training = training]]

\* open_all_layers(model): training mode, every parameter requires_grad
open_all_layers(m) == [training |-> TRUE, grad |-> TRUE]

\* open_specified_layers(model, []): no layer is open, so the model is in
\* evaluation mode and no parameter requires_grad
open_no_layers(m) == [training |-> FALSE, grad |-> FALSE]

\* an unfreeze that puts the models back in training mode only
unfreeze_mode_only(md) ==
    [n \in DOMAIN md |-> IF n \in model_names_to_freeze
                         THEN [md[n] EXCEPT !.training = TRUE] ELSE md[n]]

\* Engine._unfreeze_aux_models: model.train(); open_all_layers(model)
unfreeze_aux_models(md) ==
    [n \in DOMAIN md |-> IF n \in model_names_to_freeze
                         THEN open_all_layers([md[n] EXCEPT !.training = TRUE])
                         ELSE md[n]]

\* Engine._freeze_aux_models: model.eval(); open_specified_layers(model, [])
freeze_aux_models(md) ==
    [n \in DOMAIN md |-> IF n \in model_names_to_freeze
                         THEN open_no_layers([md[n] EXCEPT !.training = FALSE])
                         ELSE md[n]]

\* the head of train() (lines 505-518): the modes it leaves, given the answer d of
\* _should_freeze_aux_models; when the answer is a raised error only
\* set_model_mode('train') has run
TrainHeadModes(md, d) ==
    LET m1 == set_model_mode(md, TRUE)
    IN  IF d = <<>> THEN m1
        ELSE IF d[1] THEN freeze_aux_models(m1)
        ELSE unfreeze_aux_models(m1)

\* entry assertions that forget the target metric
EntryAssertionsEarlyOnly(a) ==
    /\ a.start_epoch # a.max_epoch
    /\ early_stopping => a.eval_freq = 1

\* what forward_backward can raise; NotImplementedError is a subclass of RuntimeError
ExcKinds == {"RuntimeError", "NotImplementedError", "ValueError", "TypeError"}

\* an except clause that catches every exception
CaughtAlways(exc) == TRUE

\* run(): "except RuntimeError as exp" around train()
CaughtByRun(exc) == exc \in {"RuntimeError", "NotImplementedError"}

\* run()'s two entry assertions
EntryAssertionsHold(a) ==
    /\ a.start_epoch # a.max_epoch
    /\ (early_stopping \/ target_metric = "test_acc") => a.eval_freq = 1

\* an evaluation condition without the clause for the final epoch
ShouldEvaluateNoFinal(ep, start_eval, eval_freq, max_epoch) ==
    /\ ep + 1 >= start_eval
    /\ eval_freq > 0
    /\ (ep + 1) % eval_freq = 0

\* the condition under which run() calls test() for an epoch
ShouldEvaluate(ep, start_eval, eval_freq, max_epoch) ==
    \/ /\ ep + 1 >= start_eval
       /\ eval_freq > 0
       /\ (ep + 1) % eval_freq = 0
       /\ ep + 1 # max_epoch
    \/ ep = max_epoch - 1

\* ------------------------------------------------------------ file system
\* save_checkpoint writes one file per model and epoch number and returns its path
CkptPath(name, epoch_no) == <<name, epoch_no>>

\* 'latest.pth' / 'best.pth' for the main model, 'latest_<name>.pth' /
\* 'best_<name>.pth' for any other: one link name per (kind, model)
LinkName(kind, name) == <<kind, name>>

WriteFile(f, path, content) ==
    [p \in (DOMAIN f) \cup {path} |-> IF p = path THEN content ELSE f[p]]

\* os.remove(name)
Remove(l, name) == [k \in (DOMAIN l) \ {name} |-> l[k]]

\* os.symlink(path, name)
Symlink(l, path, name) ==
    [k \in (DOMAIN l) \cup {name} |-> IF k = name THEN path ELSE l[k]]

\* save_model.create_sym_link: remove the link if it exists, then create it
create_sym_link(l, path, name) ==
    Symlink(IF name \in DOMAIN l THEN Remove(l, name) ELSE l, path, name)

\* a checkpoint that holds the scheduler as it was before the epoch's LR update
CheckpointBeforeLrUpdate(name, ep, ema_flag) ==
    [state_dict |-> IF ema_flag /\ name = main_model_name
                    THEN <<"ema", ema_model>>
                    ELSE IF name = main_model_name THEN <<"model", state_dict>>
                    ELSE <<"aux", calls.fb>>,
     epoch |-> ep + 1,
     scheduler |-> schedLog[name].batch + schedLog[name].epoch - epochLog.lr_steps,
     at |-> <<runs, epoch>>]

\* a checkpoint that records the epoch argument as it was passed
CheckpointEpochAsPassed(name, ep, ema_flag) ==
    [state_dict |-> IF ema_flag /\ name = main_model_name
                    THEN <<"ema", ema_model>>
                    ELSE IF name = main_model_name THEN <<"model", state_dict>>
                    ELSE <<"aux", calls.fb>>,
     epoch |-> ep,
     scheduler |-> schedLog[name].batch + schedLog[name].epoch,
     at |-> <<runs, epoch>>]

\* the checkpoint dictionary save_model builds for one model
Checkpoint(name, ep, ema_flag) ==
    [state_dict |-> IF ema_flag /\ name = main_model_name
                    THEN <<"ema", ema_model>>
                    ELSE IF name = main_model_name THEN <<"model", state_dict>>
                    ELSE <<"aux", calls.fb>>,
     epoch |-> ep + 1,
     scheduler |-> schedLog[name].batch + schedLog[name].epoch,
     at |-> <<runs, epoch>>]

\* save_model's loop body for one model, on the file system FS = [files, links]
SaveOne(FS, name, ep, is_best, ema_flag) ==
    LET path == CkptPath(name, ep + 1)
        f1 == WriteFile(FS.files, path, Checkpoint(name, ep, ema_flag))
        l1 == create_sym_link(FS.links, path, LinkName("latest", name))
        l2 == IF is_best THEN create_sym_link(l1, path, LinkName("best", name)) ELSE l1
    IN  [files |-> f1, links |-> l2]

RECURSIVE SaveFrom(_, _, _, _, _)
SaveFrom(FS, i, ep, is_best, ema_flag) ==
    IF i > Len(models) THEN FS
    ELSE SaveFrom(SaveOne(FS, models[i], ep, is_best, ema_flag), i + 1, ep, is_best, ema_flag)

\* a save that writes the main model's checkpoint only
save_model_main_only(FS, ep, is_best, ema_flag) ==
    SaveOne(FS, models[1], ep, is_best, ema_flag)

\* save_model(epoch, save_dir, is_best, should_save_ema_model)
save_model(FS, ep, is_best, ema_flag) == SaveFrom(FS, 1, ep, is_best, ema_flag)

\* ------------------------------------------------------------- schedulers
NoneMetric == <<0, 0>>

\* update_lr: every registered scheduler that is not None is stepped; plateau and
\* warmup schedulers get the metric, the others no argument.  level is "batch"
\* when train() calls it and "epoch" when run() calls it.
update_lr(log, level, metric) ==
    [n \in DOMAIN log |->
        IF scheds[n] = "None" THEN log[n]
        ELSE [batch |-> log[n].batch + (IF level = "batch" THEN 1 ELSE 0),
              epoch |-> log[n].epoch + (IF level = "epoch" THEN 1 ELSE 0),
              last |-> IF TakesMetric(scheds[n]) THEN <<"metrics", metric>>
                       ELSE <<"noarg", NoneMetric>>]]

\* a scheduler step leaves the optimizer's learning rate or sets the annealed one
SchedLrChoices(lr) == {lr, AnnealedLr}

\* an epoch-level step that is not switched off in LR-finder mode
EpochLevelStepInFinder(lr_finder) == ~per_batch_annealing

\* run(): "if not lr_finder and not self.per_batch_annealing"
EpochLevelStep(lr_finder) == lr_finder = "none" /\ ~per_batch_annealing

\* a per-batch step made only after the last batch of an epoch
BatchLevelStepLastBatch == per_batch_annealing /\ batch_idx + 1 = NumBatches

\* train(): "if self.per_batch_annealing"
BatchLevelStep == per_batch_annealing

\* an EMA update that is not switched off in LR-finder mode
EmaStepInFinder(lr_finder) == use_ema_decay

\* train(): "if not lr_finder and self.use_ema_decay"
EmaStep(lr_finder) == lr_finder = "none" /\ use_ema_decay

\* a poll that looks at the stop signal only after the last batch of an epoch
StopObservedLastBatch == args.stop_callback /\ stopSig /\ batch_idx + 1 = NumBatches

\* "if stop_callback and stop_callback.check_stop()"
StopObserved == args.stop_callback /\ stopSig

\* run(): target_metric = test_acc.avg if self.target_metric == 'test_acc' else avg_loss
TargetMetric(avg_loss) ==
    IF target_metric = "test_acc" THEN MeterAvg(test_acc) ELSE avg_loss

\* a hook that takes only a strictly higher accuracy as a best candidate
exit_on_plateau_strict(acc, best) ==
    LET current_metric == Round4(acc)
    IN  IF current_metric > best THEN <<FALSE, TRUE, current_metric>>
        ELSE <<FALSE, FALSE, best>>

\* a hook that remembers the last metric, not the best one
exit_on_plateau_last(acc, best) ==
    LET current_metric == Round4(acc)
    IN  <<FALSE, current_metric >= best, current_metric>>

\* exit_on_plateau_and_choose_best of the base Engine:
\* <<should_exit, is_candidate_for_best, best_metric afterwards>>
exit_on_plateau_and_choose_best(acc, best) ==
    LET current_metric == Round4(acc)
    IN  IF current_metric >= best THEN <<FALSE, TRUE, current_metric>>
        ELSE <<FALSE, FALSE, best>>

\* a break that forgets the compression controller
ShouldBreakAnyStage(should_exit, stage) == should_exit

\* run()'s "if should_exit:" block: break when no compression controller is
\* attached or its stage is FULLY_COMPRESSED.  stage is what compression_stage()
\* returns when it is called.
ShouldBreak(should_exit, stage) ==
    should_exit /\ (compression_ctrl = "None" \/ stage = "FULLY_COMPRESSED")

\* the should_exit values the hook can return: the base Engine's own, or any
\* value when a derived Engine overrides the hook
HookExitSignals(base) == IF hook_overridden THEN BOOLEAN ELSE {base}

\* ------------------------------------------------------------------- Init
NewSchedLog(ms) ==
    [n \in {ms[i] : i \in 1..Len(ms)} |->
        [batch |-> 0, epoch |-> 0, last |-> <<"never", NoneMetric>>]]

\* fb: forward_backward calls started; ret: calls that returned; done: batches
\* whose loop body ran to its end (no divergence, no stop observed)
NewCalls == [fb |-> 0, ret |-> 0, done |-> 0, ema |-> 0, upd |-> 0, report |-> 0,
             finalize |-> 0]

\* hook: <<should_exit, is_candidate_for_best>> as the hook returned them, <<>>
\* before it is called; stage: the compression stage read, "" if none was read;
\* broke: the break that follows the checkpoint step was executed; scores:
\* <<main model's score, EMA model's score>> of a test() that evaluated both;
\* report: <<value, step>> given to trial.report, <<>> if none was made;
\* prune_asked: trial.should_prune() answered true; evaluated: the <<model,
\* score>> pairs of the last test(); test_only: that test() was a test-only call;
\* aux: the auxiliary losses that losses.update(loss_summary) added to the meters
\* of this epoch's train(), their number and whether one was NaN or infinite
NewEpochLog == [begun |-> 0, tests |-> 0, lr_steps |-> 0, saves |-> 0,
                hook |-> <<>>, stage |-> "", broke |-> FALSE, scores |-> <<>>,
                report |-> <<>>, prune_asked |-> FALSE, evaluated |-> <<>>,
                test_only |-> FALSE, aux |-> [n |-> 0, bad |-> FALSE]]

\* bad_loss: forward_backward reported a NaN or infinite main loss; stop_batch /
\* stop_epoch: the stop signal read true at a poll after a batch / after train()
\* exc: the exception forward_backward raised, "" if none
NewFlags == [bad_loss |-> FALSE, stop_batch |-> FALSE, stop_epoch |-> FALSE, exc |-> ""]

\* acc, at: the highest accuracy (to 4 decimals) test() has returned outside
\* LR-finder mode and the <<run, epoch>> places it was measured at; last_save: the place of the last save
\* event; proposed: the learning rates trials have proposed; modes: the LR-finder
\* modes run() has been called with; aborted: some run() was left by an exception
\* other than the prune signal
NewSeen == [acc |-> -1, at |-> {}, last_save |-> <<0, 0>>, proposed |-> {}, modes |-> {},
            aborted |-> FALSE]

\* pc: the step save_model is at; i: the index of the model being saved; ep,
\* is_best: its arguments; n: calls begun so far; created: the link names
\* os.symlink has created so far
NewSave == [pc |-> "idle", i |-> 0, ep |-> 0, is_best |-> FALSE, n |-> 0, created |-> {}]

\* no call of _should_freeze_aux_models yet
NoDecision == [epoch |-> -1, res |-> <<>>]

NoArgs == [lr_finder |-> "none", trial |-> <<>>, max_epoch |-> 0, start_epoch |-> 0,
           start_eval |-> 0, eval_freq |-> -1, stop_callback |-> FALSE,
           initial_seed |-> InitialSeed]

\* no registry call yet
NewRegLog == [op |-> "", name |-> "", handle |-> 0, kind |-> "", req |-> <<>>,
              res |-> <<"", <<>>>>, n |-> 0]

\* no augmentation call yet
NewAugLog ==
    [n |-> 0, prev |-> FALSE, applied |-> FALSE, r |-> 0, d |-> <<>>, imgs |-> <<>>,
     box |-> NoBox]

\* Engine.__init__ with configuration c; with c.base_setup false, the Engine of a
\* derived class that has not called the base __init__ yet
InitWith(c) ==
    /\ models = IF c.base_setup THEN c.models ELSE <<>>
    /\ scheds = IF c.base_setup THEN c.scheds ELSE <<>>
    /\ registry = IF c.base_setup THEN Registered(c.models, c.scheds) ELSE NoRegistry
    /\ regLog = NewRegLog
    /\ aug_type = c.aug_type
    /\ alpha = c.alpha
    /\ aug_prob = c.aug_prob
    /\ lam = <<>>
    /\ aug_index = <<>>
    /\ augLog = NewAugLog
    /\ per_batch_annealing = IsPerBatchKind(c.scheds[c.models[1]])
    /\ use_ema_decay = c.use_ema_decay
    /\ early_stopping = c.early_stopping
    /\ target_metric = c.target_metric
    /\ save_all_chkpts = c.save_all_chkpts
    /\ compression_ctrl = c.compression_ctrl
    /\ hook_overridden = c.hook_overridden
    /\ should_freeze_aux_models = c.should_freeze_aux_models
    /\ epoch_interval_for_aux_model_freeze = c.epoch_interval_for_aux_model_freeze
    /\ model_names_to_freeze =
          IF c.should_freeze_aux_models /\ c.base_setup
          THEN {c.models[i] : i \in 2..Len(c.models)} ELSE {}
    /\ mode = [n \in {c.models[i] : i \in 1..(IF c.base_setup THEN Len(c.models) ELSE 0)} |->
                  [training |-> TRUE, grad |-> TRUE]]
    /\ decision = NoDecision
    /\ state_dict = 0
    /\ optim = [lr |-> InitLr, steps |-> 0]
    /\ ema_model = 0
    /\ best_metric = 0
    /\ param_history = {}
    /\ cached = <<>>
    /\ rng = Seeded(EngineSeed)
    /\ files = <<>>
    /\ links = <<>>
    /\ pc = "idle"
    /\ result = "none"
    /\ runs = 0
    /\ args = NoArgs
    /\ epoch = 0
    /\ batch_idx = 0
    /\ accuracy = 0
    /\ should_save_ema_model = FALSE
    /\ test_acc = NewMeter
    /\ losses = NewMeter
    /\ stopSig = FALSE
    /\ calls = NewCalls
    /\ schedLog = NewSchedLog(IF c.base_setup THEN c.models ELSE <<>>)
    /\ epochLog = NewEpochLog
    /\ flags = NewFlags
    /\ seen = NewSeen
    /\ sv = NewSave

\* ---------------------------------------------------------------- actions
\* run(), from its entry to the head of the epoch loop (lines 345-363)
RunEnter(A, limit) ==
    /\ pc = "idle"
    /\ runs < limit
    /\ \E a \in A :
        LET E == FinderSetup(Eng, a.lr_finder, a.trial)
            ok == E.raised = "none" /\ EntryAssertionsHold(a)
        IN  /\ args' = a
            /\ runs' = runs + 1
            /\ state_dict' = E.state_dict
            /\ optim' = E.optim
            /\ cached' = E.cached
            /\ param_history' = E.param_history
            /\ rng' = E.rng
            /\ result' = IF E.raised # "none" THEN E.raised
                         ELSE IF ~EntryAssertionsHold(a) THEN "AssertionError"
                         ELSE "running"
            /\ pc' = IF ~ok THEN "idle"
                     ELSE IF a.start_epoch < a.max_epoch THEN "epoch_begin"
                     ELSE "loop_exit"
            /\ epoch' = a.start_epoch
            /\ seen' = [seen EXCEPT
                   !.modes = IF a.lr_finder = "none" THEN @ ELSE @ \cup {a.lr_finder},
                   !.proposed = IF a.lr_finder = "none" \/ a.trial = <<>> THEN @
                                ELSE @ \cup {a.trial[1]},
                   !.aborted = @ \/ E.raised = "KeyError"
                                 \/ (E.raised = "none" /\ ~EntryAssertionsHold(a))]
    /\ batch_idx' = 0
    /\ accuracy' = 0
    /\ should_save_ema_model' = FALSE
    /\ test_acc' = NewMeter
    /\ losses' = NewMeter
    /\ stopSig' = FALSE
    /\ calls' = NewCalls
    /\ schedLog' = NewSchedLog(models)
    /\ epochLog' = NewEpochLog
    /\ flags' = NewFlags
    /\ UNCHANGED <<cfgVars, sideVars, modeVars, ema_model, best_metric, fsVars, sv>>

\* the head of one epoch and of train(): reseed NumPy, reset the meters and hand
\* the first batch to forward_backward (lines 363-368, 500-530)
EpochBegin ==
    /\ pc = "epoch_begin"
    /\ LET d == should_freeze_aux_models_at(epoch)
           raised == d = <<>>
       IN  /\ decision' = [epoch |-> epoch, res |-> d]
           /\ mode' = TrainHeadModes(mode, d)
           /\ calls' = [calls EXCEPT !.fb = IF raised THEN @ ELSE @ + 1]
           /\ pc' = IF raised THEN "loop_exit" ELSE "forward_backward"
    /\ rng' = Seeded(EpochSeed(args.initial_seed, epoch))
    /\ losses' = NewMeter
    /\ batch_idx' = 0
    /\ epochLog' = [NewEpochLog EXCEPT !.begun = 1]
    /\ UNCHANGED <<cfgVars, sideVars, state_dict, optim, ema_model, best_metric, param_history,
                   cached, fsVars, result, runs, args, epoch, accuracy,
                   should_save_ema_model, test_acc, stopSig, schedLog, flags,
                   seen, sv>>

\* a divergence test on the worst loss of the batch
last_worst_loss(loss_summary) ==
    IF \E n \in DOMAIN loss_summary : IsNanOrInf(loss_summary[n])
    THEN CHOOSE l \in {loss_summary[n] : n \in DOMAIN loss_summary} : IsNanOrInf(l)
    ELSE loss_summary[models[1]]

\* last_main_loss = loss_summary[self.get_model_names()[0]]
last_main_loss(loss_summary) == loss_summary[models[1]]

\* forward_backward of the current batch returns; the rest of the loop body of
\* train() follows (lines 530-572), up to the start of the next batch; auxVals
\* are the losses the auxiliary models can report
BatchStepOn(auxVals) ==
    /\ pc = "forward_backward"
    /\ \E loss \in LossVals, lrNext \in SchedLrChoices(optim.lr),
          auxLoss \in (IF Len(models) > 1 THEN auxVals ELSE {<<"finite", 1>>}) :
        LET loss_summary == [n \in {models[i] : i \in 1..Len(models)} |->
                                IF n = models[1] THEN loss ELSE auxLoss]
            diverged == IsNanOrInf(last_main_loss(loss_summary))
            stop == ~diverged /\ StopObserved
            go == ~diverged /\ ~stop
            more == go /\ batch_idx + 1 < NumBatches
            step == go /\ BatchLevelStep
        IN  /\ state_dict' = state_dict + 1
            /\ rng' = [rng EXCEPT !.draws = @ + 1]
            /\ losses' = IF diverged THEN losses ELSE MeterUpdate(losses, loss[2])
            /\ ema_model' = IF go /\ EmaStep(args.lr_finder) THEN ema_model + 1
                            ELSE ema_model
            /\ schedLog' = IF step THEN update_lr(schedLog, "batch", NoneMetric)
                           ELSE schedLog
            /\ optim' = [lr |-> IF step /\ scheds[main_model_name] # "None"
                                THEN lrNext ELSE optim.lr,
                         steps |-> optim.steps + 1]
            /\ calls' = [calls EXCEPT !.fb = IF more THEN @ + 1 ELSE @,
                                      !.ret = @ + 1,
                                      !.done = IF go THEN @ + 1 ELSE @,
                                      !.ema = IF go /\ EmaStep(args.lr_finder)
                                              THEN @ + 1 ELSE @]
            /\ flags' = [flags EXCEPT
                   !.bad_loss = @ \/ loss[1] # "finite",
                   !.stop_batch = @ \/ (loss[1] = "finite" /\ args.stop_callback /\ stopSig)]
            /\ epochLog' = [epochLog EXCEPT
                   !.aux = IF diverged \/ Len(models) = 1 THEN @
                           ELSE [n |-> @.n + 1, bad |-> @.bad \/ auxLoss[1] # "finite"]]
            /\ batch_idx' = IF more THEN batch_idx + 1 ELSE batch_idx
            /\ pc' = IF diverged THEN "loop_exit"
                     ELSE IF more THEN "forward_backward"
                     ELSE "after_train"
    /\ UNCHANGED <<cfgVars, sideVars, modeVars, best_metric, param_history, cached, fsVars, result, runs,
                   args, epoch, accuracy, should_save_ema_model, test_acc, stopSig,
                   seen, sv>>

\* the batch step of a run whose auxiliary models report finite losses
BatchStep == BatchStepOn({<<"finite", 1>>})

\* forward_backward of the current batch raises: run() catches a RuntimeError and
\* leaves the loop (lines 369-380); anything else leaves train() and run() and
\* reaches the caller
ForwardBackwardRaises ==
    /\ pc = "forward_backward"
    /\ \E exc \in ExcKinds :
        /\ flags' = [flags EXCEPT !.exc = exc]
        /\ pc' = IF CaughtByRun(exc) THEN "loop_exit" ELSE "idle"
        /\ result' = IF CaughtByRun(exc) THEN result ELSE exc
        /\ seen' = [seen EXCEPT !.aborted = @ \/ ~CaughtByRun(exc)]
    /\ UNCHANGED <<cfgVars, sideVars, modeVars, engVars, fsVars, runs, args, epoch, batch_idx,
                   accuracy, should_save_ema_model, test_acc, losses, stopSig, calls,
                   schedLog, epochLog, sv>>

\* after train() has returned: the epoch-level poll of the stop signal (lines 382-391)
AfterTrain ==
    /\ pc = "after_train"
    /\ flags' = [flags EXCEPT !.stop_epoch = @ \/ (args.stop_callback /\ stopSig)]
    /\ pc' = IF StopObserved THEN "loop_exit" ELSE "evaluate"
    /\ UNCHANGED <<cfgVars, sideVars, modeVars, engVars, fsVars, result, runs, args, epoch, batch_idx,
                   accuracy, should_save_ema_model, test_acc, losses, stopSig, calls,
                   schedLog, epochLog, seen, sv>>

\* a test() that prefers the EMA model on a tie
TestResultTieEma(lr_finder, accMain, accEma) ==
    IF use_ema_decay /\ lr_finder = "none" /\ accEma >= accMain
    THEN <<accEma, TRUE>>
    ELSE <<accMain, FALSE>>

\* a test() that lists an EMA score on every Engine
TestResultEmaAlways(lr_finder, accMain, accEma) ==
    IF lr_finder = "none" /\ accEma > accMain
    THEN <<accEma, TRUE>>
    ELSE <<accMain, FALSE>>

\* test(): the main model's and (outside LR-finder mode, with EMA) the EMA model's
\* score; returns the maximum and its index in [main, EMA]
TestResult(lr_finder, accMain, accEma) ==
    IF use_ema_decay /\ lr_finder = "none" /\ accEma > accMain
    THEN <<accEma, TRUE>>
    ELSE <<accMain, FALSE>>

\* a test() that evaluates every registered model in every epoch
EvaluatedInTestEveryEpoch(ep, max_epoch, lr_finder, test_only, accMain, accEma, accAux) ==
    [i \in 1..Len(models) |->
        <<models[i], IF models[i] = main_model_name THEN accMain ELSE accAux>>]
    \o (IF use_ema_decay /\ lr_finder = "none" /\ ~test_only
        THEN << <<"EMA model", accEma>> >> ELSE <<>>)

\* test(): the <<model name, score>> pairs of the models it evaluates, in order;
\* the loop skips a model that is neither the main nor the EMA model unless the
\* call is test-only or the epoch is the last one
EvaluatedInTest(ep, max_epoch, lr_finder, test_only, accMain, accEma, accAux) ==
    LET models_to_eval ==
            [i \in 1..Len(models) |->
                <<models[i], IF models[i] = main_model_name THEN accMain ELSE accAux>>]
            \o (IF use_ema_decay /\ lr_finder = "none" /\ ~test_only
                THEN << <<"EMA model", accEma>> >> ELSE <<>>)
        Evaluated(m) == \/ m[1] \in {main_model_name, "EMA model"}
                        \/ test_only
                        \/ ep = max_epoch - 1
    IN  SelectSeq(models_to_eval, Evaluated)

\* an epoch without evaluation that starts again from run()'s initial values
CarriedOverReset == <<0, FALSE>>

\* accuracy and should_save_ema_model in an epoch whose evaluation condition is
\* false: the names keep what the last assignment gave them
CarriedOver == <<accuracy, should_save_ema_model>>

\* the evaluation step of an epoch and the update of the smoothed accuracy
\* (lines 393-406)
Evaluate ==
    /\ pc = "evaluate"
    /\ \E accMain \in AccVals, accEma \in AccVals, accAux \in {20} :
        LET doTest == ShouldEvaluate(epoch, args.start_eval, args.eval_freq,
                                     args.max_epoch)
            res == IF doTest THEN TestResult(args.lr_finder, accMain, accEma)
                   ELSE CarriedOver
        IN  /\ accuracy' = res[1]
            /\ should_save_ema_model' = res[2]
            /\ test_acc' = TrackerUpdate(test_acc, res[1])
            /\ epochLog' = [epochLog EXCEPT
                   !.tests = IF doTest THEN @ + 1 ELSE @,
                   !.evaluated = IF doTest
                                 THEN EvaluatedInTest(epoch, args.max_epoch,
                                                      args.lr_finder, FALSE,
                                                      accMain, accEma, accAux)
                                 ELSE @,
                   !.scores = IF doTest /\ use_ema_decay /\ args.lr_finder = "none"
                              THEN <<accMain, accEma>> ELSE @]
            /\ seen' = IF ~doTest \/ args.lr_finder # "none" \/ Round4(res[1]) < seen.acc
                       THEN seen
                       ELSE IF Round4(res[1]) = seen.acc
                       THEN [seen EXCEPT !.at = @ \cup {<<runs, epoch>>}]
                       ELSE [seen EXCEPT !.acc = Round4(res[1]),
                                         !.at = {<<runs, epoch>>}]
            /\ mode' = IF doTest THEN set_model_mode(mode, FALSE) ELSE mode
    /\ pc' = "update_lr"
    /\ UNCHANGED <<cfgVars, sideVars, decision, engVars, fsVars, result, runs, args, epoch,
                   batch_idx, losses, stopSig, calls, schedLog, flags, sv>>

\* the epoch-level scheduler step (lines 408-412)
UpdateLR ==
    /\ pc = "update_lr"
    /\ \E lrNext \in SchedLrChoices(optim.lr) :
        LET step == EpochLevelStep(args.lr_finder)
        IN  /\ schedLog' = IF step
                           THEN update_lr(schedLog, "epoch", TargetMetric(MeterAvg(losses)))
                           ELSE schedLog
            /\ optim' = [optim EXCEPT !.lr = IF step /\ scheds[main_model_name] # "None"
                                             THEN lrNext ELSE @]
    /\ calls' = [calls EXCEPT !.upd = @ + 1]
    /\ epochLog' = [epochLog EXCEPT !.lr_steps =
                       IF EpochLevelStep(args.lr_finder) THEN @ + 1 ELSE @]
    /\ pc' = "trial_report"
    /\ UNCHANGED <<cfgVars, sideVars, modeVars, state_dict, ema_model, best_metric, param_history, cached,
                   rng, fsVars, result, runs, args, epoch, batch_idx, accuracy,
                   should_save_ema_model, test_acc, losses, stopSig, flags,
                   seen, sv>>

\* a report that counts epochs from one
ReportStepOneBased(ep) == ep + 1

\* the step run() gives to trial.report(accuracy, self.epoch)
ReportStep(ep) == ep

\* LR-finder mode: report the accuracy to the trial, prune on request (lines 414-421)
TrialReport ==
    /\ pc = "trial_report"
    /\ \E should_prune \in BOOLEAN :
        LET hasTrial == args.lr_finder # "none" /\ args.trial # <<>>
            prune == hasTrial /\ should_prune
            R == IF prune THEN restore_model(Eng) ELSE Eng
        IN  /\ calls' = [calls EXCEPT !.report = IF hasTrial THEN @ + 1 ELSE @]
            /\ epochLog' = [epochLog EXCEPT
                   !.report = IF hasTrial THEN <<accuracy, ReportStep(epoch)>> ELSE @,
                   !.prune_asked = prune]
            /\ state_dict' = R.state_dict
            /\ optim' = R.optim
            /\ rng' = R.rng
            /\ result' = IF ~prune THEN result
                         ELSE IF R.raised = "none" THEN "TrialPruned" ELSE R.raised
            /\ pc' = IF prune THEN "idle" ELSE "checkpoint"
            /\ seen' = [seen EXCEPT !.aborted = @ \/ R.raised = "KeyError"]
    /\ UNCHANGED <<cfgVars, sideVars, modeVars, ema_model, best_metric, param_history, cached, fsVars,
                   runs, args, epoch, batch_idx, accuracy, should_save_ema_model,
                   test_acc, losses, stopSig, schedLog, flags, sv>>

\* outside LR-finder mode: choose the best candidate and save (lines 423-440);
\* then the loop goes to the next epoch or ends
CheckpointStep ==
    /\ pc = "checkpoint"
    /\ LET finder == args.lr_finder # "none"
           hook == exit_on_plateau_and_choose_best(accuracy, best_metric)
           is_best == hook[2]
           doSave == ~finder /\ (save_all_chkpts \/ is_best)
           FS == IF ~doSave THEN [files |-> files, links |-> links]
                 ELSE save_model([files |-> files, links |-> links],
                                 IF save_all_chkpts THEN epoch ELSE 0,
                                 is_best, should_save_ema_model)
       IN  \E sig \in (IF finder THEN {FALSE} ELSE HookExitSignals(hook[1])) :
           LET should_exit == early_stopping /\ sig
               reads == ~finder /\ should_exit /\ compression_ctrl # "None"
           IN  \E stage \in (IF reads THEN CompressionStages ELSE {""}) :
               LET brk == ~finder /\ ShouldBreak(should_exit, stage)
               IN  /\ best_metric' = IF finder THEN best_metric ELSE hook[3]
                   /\ files' = FS.files
                   /\ links' = FS.links
                   /\ epochLog' = [epochLog EXCEPT
                          !.saves = IF doSave THEN @ + 1 ELSE @,
                          !.hook = IF finder THEN @ ELSE <<sig, is_best>>,
                          !.stage = stage,
                          !.broke = brk]
                   /\ seen' = IF doSave THEN [seen EXCEPT !.last_save = <<runs, epoch>>]
                              ELSE seen
                   /\ IF brk
                      THEN pc' = "loop_exit" /\ epoch' = epoch
                      ELSE IF epoch + 1 < args.max_epoch
                      THEN pc' = "epoch_begin" /\ epoch' = epoch + 1
                      ELSE pc' = "loop_exit" /\ epoch' = epoch
    /\ UNCHANGED <<cfgVars, sideVars, modeVars, state_dict, optim, ema_model, param_history, cached, rng,
                   result, runs, args, batch_idx, accuracy, should_save_ema_model,
                   test_acc, losses, stopSig, calls, schedLog, flags, sv>>

\* a run() that skips _finalize_training after a divergence
FinalizesUnlessDiverged(raised) == raised = "none" /\ ~flags.bad_loss

\* run() reaches self._finalize_training() when nothing after the loop has raised
Finalizes(raised) == raised = "none"

\* after the epoch loop: restore in LR-finder mode (unless 'fast_ai'), finalize,
\* return (lines 442-453)
RunExit ==
    /\ pc = "loop_exit"
    /\ LET restore == args.lr_finder # "none" /\ args.lr_finder # "fast_ai"
           R == IF restore THEN restore_model(Eng) ELSE Eng
       IN  /\ state_dict' = R.state_dict
           /\ optim' = R.optim
           /\ rng' = R.rng
           /\ result' = IF R.raised = "none" THEN "returned" ELSE R.raised
           /\ calls' = [calls EXCEPT !.finalize = IF Finalizes(R.raised) THEN @ + 1 ELSE @]
           /\ seen' = [seen EXCEPT !.aborted = @ \/ R.raised = "KeyError"]
    /\ pc' = "idle"
    /\ UNCHANGED <<cfgVars, sideVars, modeVars, ema_model, best_metric, param_history, cached, fsVars,
                   runs, args, epoch, batch_idx, accuracy, should_save_ema_model,
                   test_acc, losses, stopSig, schedLog, epochLog, flags, sv>>

\* save_model one file-system operation at a time (lines 205-251).  The other
\* variables of the Engine do not change while it runs.
SaveFrame == UNCHANGED <<cfgVars, sideVars, modeVars, engVars, runVars, logVars>>

\* the step that follows the links of model sv.i: the next model, or the return
SaveAdvance ==
    IF sv.i < Len(models) THEN [sv EXCEPT !.pc = "write", !.i = @ + 1]
    ELSE [sv EXCEPT !.pc = "idle"]

\* save_model(ep, save_dir, is_best) is called
SaveBegin ==
    /\ sv.pc = "idle"
    /\ sv.n < MaxSaves
    /\ \E ep \in 0..(MaxSaves - 1), is_best \in BOOLEAN :
        sv' = [sv EXCEPT !.pc = "write", !.i = 1, !.ep = ep, !.is_best = is_best,
                         !.n = @ + 1]
    /\ UNCHANGED fsVars
    /\ SaveFrame

\* save_checkpoint writes the file of model sv.i (lines 228-233)
SaveWrite ==
    /\ sv.pc = "write"
    /\ files' = WriteFile(files, CkptPath(models[sv.i], sv.ep + 1),
                          Checkpoint(models[sv.i], sv.ep, FALSE))
    /\ sv' = [sv EXCEPT !.pc = "unlink_latest"]
    /\ UNCHANGED links
    /\ SaveFrame

\* create_sym_link for 'latest': if osp.lexists(name): os.remove(name)
SaveUnlinkLatest ==
    /\ sv.pc = "unlink_latest"
    /\ LET name == LinkName("latest", models[sv.i])
       IN  links' = IF name \in DOMAIN links THEN Remove(links, name) ELSE links
    /\ sv' = [sv EXCEPT !.pc = "link_latest"]
    /\ UNCHANGED files
    /\ SaveFrame

\* create_sym_link for 'latest': os.symlink(path, name)
SaveLinkLatest ==
    /\ sv.pc = "link_latest"
    /\ LET name == LinkName("latest", models[sv.i])
       IN  /\ links' = Symlink(links, CkptPath(models[sv.i], sv.ep + 1), name)
           /\ sv' = IF sv.is_best
                    THEN [sv EXCEPT !.pc = "unlink_best", !.created = @ \cup {name}]
                    ELSE [SaveAdvance EXCEPT !.created = @ \cup {name}]
    /\ UNCHANGED files
    /\ SaveFrame

\* create_sym_link for 'best': if osp.lexists(name): os.remove(name)
SaveUnlinkBest ==
    /\ sv.pc = "unlink_best"
    /\ LET name == LinkName("best", models[sv.i])
       IN  links' = IF name \in DOMAIN links THEN Remove(links, name) ELSE links
    /\ sv' = [sv EXCEPT !.pc = "link_best"]
    /\ UNCHANGED files
    /\ SaveFrame

\* create_sym_link for 'best': os.symlink(path, name)
SaveLinkBest ==
    /\ sv.pc = "link_best"
    /\ LET name == LinkName("best", models[sv.i])
       IN  /\ links' = Symlink(links, CkptPath(models[sv.i], sv.ep + 1), name)
           /\ sv' = [SaveAdvance EXCEPT !.created = @ \cup {name}]
    /\ UNCHANGED files
    /\ SaveFrame

\* the process is interrupted between two steps of save_model; what is on disk stays
SaveInterrupted ==
    /\ sv.pc \notin {"idle"}
    /\ sv' = [sv EXCEPT !.pc = "idle"]
    /\ UNCHANGED fsVars
    /\ SaveFrame

\* a caller asks _should_freeze_aux_models about some epoch
ShouldFreezeCall ==
    /\ pc = "idle"
    /\ \E e \in 0..(MaxBound + 1) :
        decision' = [epoch |-> e, res |-> should_freeze_aux_models_at(e)]
    /\ UNCHANGED <<cfgVars, sideVars, engVars, mode, fsVars, runVars, logVars, sv>>

\* a derived Engine's forward_backward calls _apply_batch_augmentation on a batch;
\* the values after r are drawn only when the augmentation is applied, and the
\* centre of the box is drawn from the two edges and the middle of each dimension
ApplyBatchAugmentation ==
    /\ pc = "idle"
    /\ augLog.n < MaxAugCalls
    /\ \E r \in {5, 9} :
        LET applied == aug_type # "" /\ alpha > 0 /\ r <= aug_prob
            mixes == applied /\ aug_type \in {"mixup", "cutmix"}
            cuts == applied /\ aug_type = "cutmix"
        IN  \E d \in [r : {r},
                      lam : IF mixes THEN 0..LamDen ELSE {0},
                      index : IF applied THEN Permutations(1..BatchSize)
                              ELSE {[i \in 1..BatchSize |-> i]},
                      cx : IF cuts THEN {0, ImgW \div 2, ImgW - 1} ELSE {0},
                      cy : IF cuts THEN {0, ImgH \div 2, ImgH - 1} ELSE {0},
                      mask : IF applied /\ aug_type = "fmix"
                             THEN {Pixels, {}, {p \in Pixels : 2 * p[1] < ImgW}}
                             ELSE {{}}] :
            LET out == apply_batch_augmentation(
                           [aug_type |-> aug_type, alpha |-> alpha,
                            aug_prob |-> aug_prob, lam |-> lam,
                            aug_index |-> aug_index], InputBatch, d)
            IN  /\ lam' = out.lam
                /\ aug_index' = out.aug_index
                /\ augLog' = [n |-> augLog.n + 1, prev |-> augLog.applied,
                              applied |-> applied, r |-> r,
                              d |-> IF applied THEN <<d>> ELSE <<>>,
                              imgs |-> out.imgs, box |-> out.box]
    /\ UNCHANGED <<cfgVars, registry, regLog, aug_type, alpha, aug_prob, engVars,
                   modeVars, fsVars, runVars, logVars, sv>>

\* names a caller registers models under or asks for
RegNames == {MAIN, AUX, "extra_model"}

\* a caller (a derived Engine, a script) calls register_model; the model and the
\* optimizer it passes are new objects
RegisterModel ==
    /\ pc = "idle"
    /\ regLog.n < MaxRegistryCalls
    /\ \E name \in RegNames, kind \in {"None", "MultiStepLR"} :
        LET h == 10 + regLog.n
            out == register_model(registry, name, h, h, kind)
            ms == IF out.reg.models = <<>> THEN models ELSE Keys(out.reg.models[1])
            names == {ms[i] : i \in 1..Len(ms)}
        IN  /\ registry' = out.reg
            /\ regLog' = [op |-> "register_model", name |-> name, handle |-> h,
                          kind |-> kind, req |-> <<>>, res |-> <<out.raised, <<>>>>,
                          n |-> regLog.n + 1]
            /\ models' = ms
            /\ scheds' = [n \in names |->
                            IF out.raised = "none" /\ n = name THEN kind ELSE scheds[n]]
            /\ mode' = [n \in names |-> IF n \in DOMAIN mode THEN mode[n]
                                        ELSE [training |-> TRUE, grad |-> TRUE]]
            /\ schedLog' = [n \in names |-> IF n \in DOMAIN schedLog THEN schedLog[n]
                                            ELSE NewSchedLog(<<n>>)[n]]
    /\ UNCHANGED <<per_batch_annealing, use_ema_decay, early_stopping, target_metric,
                   save_all_chkpts, compression_ctrl, hook_overridden,
                   should_freeze_aux_models, epoch_interval_for_aux_model_freeze,
                   model_names_to_freeze, decision, engVars, fsVars, runVars,
                   calls, epochLog, flags, seen, sv,
                   aug_type, alpha, aug_prob, lam, aug_index, augLog>>

\* the requests made of get_model_names: None, a single name, a list of names
Requests ==
    {<<>>} \cup {<<"name", n>> : n \in RegNames}
           \cup {<<"list", <<n>>>> : n \in RegNames}
           \cup {<<"list", <<n, m>>>> : n \in RegNames, m \in RegNames}

\* a caller calls get_model_names
GetModelNames ==
    /\ pc = "idle"
    /\ regLog.n < MaxRegistryCalls
    /\ \E req \in Requests :
        regLog' = [op |-> "get_model_names", name |-> "", handle |-> 0, kind |-> "",
                   req |-> req, res |-> get_model_names(registry, req),
                   n |-> regLog.n + 1]
    /\ UNCHANGED <<cfgVars, registry, aug_type, alpha, aug_prob, lam, aug_index, augLog,
                   engVars, modeVars, fsVars, runVars, logVars, sv>>

\* the caller evaluates the models between runs: test(epoch, test_only=True)
TestOnly ==
    /\ pc = "idle"
    /\ \E accMain \in AccVals, accAux \in {20} :
        epochLog' = [epochLog EXCEPT
            !.evaluated = EvaluatedInTest(0, args.max_epoch, "none", TRUE,
                                          accMain, 0, accAux),
            !.test_only = TRUE]
    /\ mode' = set_model_mode(mode, FALSE)
    /\ UNCHANGED <<cfgVars, sideVars, decision, engVars, fsVars, runVars, calls,
                   schedLog, flags, seen, sv>>

\* the caller raises the stop signal while run() is executing
StopRequested ==
    /\ pc \notin {"idle"}
    /\ args.stop_callback
    /\ ~stopSig
    /\ stopSig' = TRUE
    /\ UNCHANGED <<cfgVars, sideVars, modeVars, engVars, fsVars, pc, result, runs, args, epoch, batch_idx,
                   accuracy, should_save_ema_model, test_acc, losses, logVars, sv>>

\* --------------------------------------------------------- specifications
\* Engine configurations: one or two registered models
SchedChoices(ms, kindsMain, kindsAux) ==
    {f \in [{ms[i] : i \in 1..Len(ms)} -> kindsMain \cup kindsAux] :
        /\ f[ms[1]] \in kindsMain
        /\ \A i \in 2..Len(ms) : f[ms[i]] \in kindsAux}

ConfigsOf(modelSets, kindsMain, kindsAux, emas, earlies, targets, saves) ==
    UNION {[models : {ms}, scheds : SchedChoices(ms, kindsMain, kindsAux),
            use_ema_decay : emas, early_stopping : earlies,
            target_metric : targets, save_all_chkpts : saves,
            compression_ctrl : {"None"}, hook_overridden : {FALSE},
            should_freeze_aux_models : {FALSE},
            epoch_interval_for_aux_model_freeze : {<<>>},
            base_setup : {TRUE},
            aug_type : {""}, alpha : {1}, aug_prob : {10}] : ms \in modelSets}

\* the same configurations, and for each the Engine before the base __init__
WithBareEngines(configs) ==
    configs \cup {[c EXCEPT !.base_setup = FALSE] : c \in configs}

\* the same configurations with a freeze policy for the aux models
WithFreeze(configs, freezes, intervals) ==
    {[c EXCEPT !.should_freeze_aux_models = f,
               !.epoch_interval_for_aux_model_freeze = iv] :
        c \in configs, f \in freezes, iv \in intervals}

\* the same configurations with a compression controller and an overridden hook
WithStopPolicy(configs, ctrls, overrides) ==
    {[c EXCEPT !.compression_ctrl = k, !.hook_overridden = o] :
        c \in configs, k \in ctrls, o \in overrides}

ArgsOf(finders, trials, maxes, starts, evals, freqs, stops) ==
    {a \in [lr_finder : finders, trial : trials, max_epoch : maxes,
            start_epoch : starts, start_eval : evals, eval_freq : freqs,
            stop_callback : stops, initial_seed : {InitialSeed}] :
        a.lr_finder = "none" => a.trial = <<>>}

Trials == {<<>>} \cup {<<lr>> : lr \in LrVals}

TrainConfigs ==
    ConfigsOf({<<MAIN>>}, {"MultiStepLR"}, {"None"},
              {FALSE}, BOOLEAN, {"train_loss", "test_acc"}, {TRUE})

TrainArgs ==
    ArgsOf({"none", "TPE"}, {<<>>, <<10>>}, 1..MaxEpochs, {0, 1}, {0, 2},
           {-1, 0, 1, 2}, BOOLEAN)

Init == \E c \in TrainConfigs : InitWith(c)

Next ==
    \/ RunEnter(TrainArgs, 1)
    \/ EpochBegin
    \/ BatchStep
    \/ AfterTrain
    \/ Evaluate
    \/ UpdateLR
    \/ TrialReport
    \/ CheckpointStep
    \/ RunExit
    \/ StopRequested

Spec == Init /\ [][Next]_vars

\* Runs over every combination of scheduler kinds, with and without EMA
SchedConfigs ==
    ConfigsOf({<<MAIN>>, <<MAIN, AUX>>},
              SchedKinds \ {"None"},
              {"None", "MultiStepLR", "ReduceLROnPlateauV2", "OneCycleLR"},
              BOOLEAN, {FALSE}, {"train_loss", "test_acc"}, {TRUE})

SchedArgs == ArgsOf({"none", "TPE"}, {<<>>}, 1..SchedEpochs, {0}, {0}, {1}, BOOLEAN)

InitSched == \E c \in SchedConfigs : InitWith(c)

NextSched ==
    \/ RunEnter(SchedArgs, 1)
    \/ EpochBegin
    \/ BatchStep
    \/ AfterTrain
    \/ Evaluate
    \/ UpdateLR
    \/ TrialReport
    \/ CheckpointStep
    \/ RunExit
    \/ StopRequested

SpecSched == InitSched /\ [][NextSched]_vars

\* A learning-rate search: every run() call is made in LR-finder mode
FinderConfigs ==
    ConfigsOf({<<MAIN>>}, {"MultiStepLR", "OneCycleLR"}, {"None"},
              {FALSE}, {FALSE}, {"train_loss"}, {TRUE})

FinderArgs == ArgsOf(FinderModes, Trials, 1..FinderEpochs, {0, 1}, {0}, {1}, {FALSE})

InitFinder == \E c \in FinderConfigs : InitWith(c)

NextFinder ==
    \/ RunEnter(FinderArgs, MaxRuns)
    \/ EpochBegin
    \/ BatchStep
    \/ AfterTrain
    \/ Evaluate
    \/ UpdateLR
    \/ TrialReport
    \/ CheckpointStep
    \/ RunExit

SpecFinder == InitFinder /\ [][NextFinder]_vars

\* A search whose every trial proposes one of two learning rates, so that from the
\* third trial on every proposal is a duplicate
InitSearch ==
    \E c \in ConfigsOf({<<MAIN>>}, {"MultiStepLR"}, {"None"}, {FALSE}, {FALSE},
                        {"train_loss"}, {TRUE}) : InitWith(c)

NextSearch ==
    \/ RunEnter(ArgsOf(FinderModes, {<<10>>, <<14>>}, 1..FinderEpochs, {0}, {0}, {1},
                       {FALSE}), MaxRuns + 1)
    \/ EpochBegin
    \/ BatchStep
    \/ AfterTrain
    \/ Evaluate
    \/ UpdateLR
    \/ TrialReport
    \/ CheckpointStep
    \/ RunExit

SpecSearch == InitSearch /\ [][NextSearch]_vars

\* Runs that skip the evaluation in some epochs, on an Engine with EMA
InitCarry ==
    \E c \in ConfigsOf({<<MAIN>>}, {"MultiStepLR"}, {"None"}, {TRUE}, {FALSE},
                        {"train_loss"}, {TRUE}) : InitWith(c)

NextCarry ==
    \/ RunEnter(ArgsOf({"none", "TPE"}, {<<>>, <<10>>}, {MaxEpochs}, {0, 1}, {0}, {2},
                       {FALSE}), 1)
    \/ EpochBegin
    \/ BatchStep
    \/ AfterTrain
    \/ Evaluate
    \/ UpdateLR
    \/ TrialReport
    \/ CheckpointStep
    \/ RunExit

SpecCarry == InitCarry /\ [][NextCarry]_vars

\* Two successive run() calls of up to two epochs on an Engine whose hook may be
\* overridden, with every
\* way a run() can end: all epochs done, stop signal, divergence, early stop, an
\* exception of forward_backward, a failed entry assertion, a prune
InitRuns ==
    \E c \in WithStopPolicy(ConfigsOf({<<MAIN>>}, {"MultiStepLR"}, {"None"}, {FALSE},
                                       BOOLEAN, {"train_loss"}, {TRUE}),
                             {"None"}, BOOLEAN) : InitWith(c)

NextRuns ==
    \/ RunEnter(ArgsOf({"none", "TPE"}, {<<>>, <<10>>}, {1, 3}, {1}, {0}, {1},
                       BOOLEAN), 2)
    \/ EpochBegin
    \/ BatchStep
    \/ ForwardBackwardRaises
    \/ AfterTrain
    \/ Evaluate
    \/ UpdateLR
    \/ TrialReport
    \/ CheckpointStep
    \/ RunExit
    \/ StopRequested

SpecRuns == InitRuns /\ [][NextRuns]_vars

\* Early stopping: runs of a derived Engine whose hook can signal an exit, with
\* and without a compression controller
StopConfigs ==
    WithStopPolicy(ConfigsOf({<<MAIN>>}, {"MultiStepLR"}, {"None"},
                             {FALSE}, BOOLEAN, {"train_loss"}, BOOLEAN),
                   {"None", "ctrl"}, BOOLEAN)

StopArgs == ArgsOf({"none"}, {<<>>}, 1..SchedEpochs, {0}, {0}, {1}, {FALSE})

InitStop == \E c \in StopConfigs : InitWith(c)

NextStop ==
    \/ RunEnter(StopArgs, 1)
    \/ EpochBegin
    \/ BatchStep
    \/ AfterTrain
    \/ Evaluate
    \/ UpdateLR
    \/ TrialReport
    \/ CheckpointStep
    \/ RunExit

SpecStop == InitStop /\ [][NextStop]_vars

\* EpochIntervalToValue(first, last, value_inside, value_outside) with each bound
\* None or an epoch number
Bounds == {<<>>} \cup {<<n>> : n \in 0..MaxBound}

Intervals ==
    {<<first, last, vin, vout>> : first \in Bounds, last \in Bounds,
                                  vin \in BOOLEAN, vout \in BOOLEAN}

\* _should_freeze_aux_models alone, over every freeze configuration
IntervalConfigs ==
    WithFreeze(ConfigsOf({<<MAIN, AUX>>}, {"MultiStepLR"}, {"None"},
                         {FALSE}, {FALSE}, {"train_loss"}, {TRUE}),
               BOOLEAN, {<<>>} \cup Intervals)

InitInterval == \E c \in IntervalConfigs : InitWith(c)

NextInterval == ShouldFreezeCall

SpecInterval == InitInterval /\ [][NextInterval]_vars

\* Runs of an Engine with an aux model and a freeze policy, with and without EMA,
\* and test-only evaluations between them, under either save
\* policy: no interval, an interval that freezes epoch 1 only, one that unfreezes
\* epoch 0 only, and one with both bounds None
FreezeIntervals ==
    {<<>>,
     <<<<1>>, <<1>>, TRUE, FALSE>>,
     <<<<>>, <<0>>, FALSE, TRUE>>,
     <<<<>>, <<>>, TRUE, FALSE>>}

FreezeConfigs ==
    WithFreeze(ConfigsOf({<<MAIN, AUX>>}, {"MultiStepLR"}, {"None"},
                         BOOLEAN, {FALSE}, {"train_loss"}, BOOLEAN),
               BOOLEAN, FreezeIntervals)

FreezeArgs == ArgsOf({"none"}, {<<>>}, 1..FreezeEpochs, {0}, {0}, {1}, {FALSE})

InitFreeze == \E c \in FreezeConfigs : InitWith(c)

NextFreeze ==
    \/ RunEnter(FreezeArgs, 1)
    \/ EpochBegin
    \/ BatchStep
    \/ AfterTrain
    \/ Evaluate
    \/ UpdateLR
    \/ TrialReport
    \/ CheckpointStep
    \/ RunExit
    \/ TestOnly

SpecFreeze == InitFreeze /\ [][NextFreeze]_vars

\* Runs of a main and an auxiliary model whose auxiliary loss can be NaN or
\* infinite
InitAuxLoss ==
    \E c \in ConfigsOf({<<MAIN, AUX>>}, {"MultiStepLR"}, {"None"}, {FALSE}, {FALSE},
                       {"train_loss"}, {TRUE}) : InitWith(c)

NextAuxLoss ==
    \/ RunEnter(ArgsOf({"none"}, {<<>>}, 1..MaxEpochs, {0}, {0}, {1}, BOOLEAN), 1)
    \/ EpochBegin
    \/ BatchStepOn(AuxLossVals)
    \/ AfterTrain
    \/ Evaluate
    \/ UpdateLR
    \/ TrialReport
    \/ CheckpointStep
    \/ RunExit
    \/ StopRequested

SpecAuxLoss == InitAuxLoss /\ [][NextAuxLoss]_vars

\* Runs in which forward_backward can raise, started with the default base seed
\* or with another one
ErrConfigs ==
    ConfigsOf({<<MAIN>>}, {"MultiStepLR"}, {"None"},
              {FALSE}, {FALSE}, {"train_loss"}, {TRUE})

ErrArgs ==
    {[a EXCEPT !.initial_seed = s] :
        a \in ArgsOf({"none", "TPE"}, {<<>>}, 1..SchedEpochs, {0}, {0}, {1}, {FALSE}),
        s \in {InitialSeed, InitialSeed + 2}}

InitErr == \E c \in ErrConfigs : InitWith(c)

NextErr ==
    \/ RunEnter(ErrArgs, 1)
    \/ EpochBegin
    \/ BatchStep
    \/ ForwardBackwardRaises
    \/ AfterTrain
    \/ Evaluate
    \/ UpdateLR
    \/ TrialReport
    \/ CheckpointStep
    \/ RunExit

SpecErr == InitErr /\ [][NextErr]_vars

\* The registries alone: register_model and get_model_names called on an Engine
\* built with one or two models, or not yet set up
InitRegistry ==
    \E c \in WithBareEngines(ConfigsOf({<<MAIN>>, <<MAIN, AUX>>}, {"MultiStepLR"},
                                         {"None"}, {FALSE}, {FALSE}, {"train_loss"},
                                         {TRUE})) : InitWith(c)

NextRegistry ==
    \/ RegisterModel
    \/ GetModelNames

SpecRegistry == InitRegistry /\ [][NextRegistry]_vars

\* Batch augmentation alone: Engines with every augmentation mode, alpha on
\* both sides of zero and aug_prob 0 or 0.5, with draws of 0.5 and 0.9
InitAug ==
    \E c \in ConfigsOf({<<MAIN>>}, {"MultiStepLR"}, {"None"}, {FALSE}, {FALSE},
                        {"train_loss"}, {TRUE}),
       t \in {"", "mixup", "cutmix", "fmix"}, a \in {-1, 0, 1}, q \in {0, 5} :
        InitWith([c EXCEPT !.aug_type = t, !.alpha = a, !.aug_prob = q])

NextAug == ApplyBatchAugmentation

SpecAug == InitAug /\ [][NextAug]_vars

\* save_model alone, step by step, on an Engine with one or two models
SaveConfigs ==
    ConfigsOf({<<MAIN>>, <<MAIN, AUX>>}, {"MultiStepLR"}, {"None"},
              {FALSE}, {FALSE}, {"train_loss"}, BOOLEAN)

InitSave == \E c \in SaveConfigs : InitWith(c)

NextSave ==
    \/ SaveBegin
    \/ SaveWrite
    \/ SaveUnlinkLatest
    \/ SaveLinkLatest
    \/ SaveUnlinkBest
    \/ SaveLinkBest
    \/ SaveInterrupted

SpecSave == InitSave /\ [][NextSave]_vars

\* ------------------------------------------------------------------ claims
\* The run has left the epoch loop for good: it is at the code after the loop, or
\* run() has returned normally.
LoopLeftNormally == pc = "loop_exit" \/ (pc = "idle" /\ result = "returned")

\* C1: once forward_backward has reported a NaN or infinite loss for the main
\* model (the loss the divergence check reads), the diverging call is the last
\* forward_backward call of the run, no further epoch begins (the run is at the
\* code after the loop or has returned) and run() returns normally.
C1_DivergenceEndsRun ==
    flags.bad_loss =>
        /\ LoopLeftNormally
        /\ calls.fb = calls.ret
        /\ calls.ret = calls.done + 1
        /\ epochLog.tests = 0 /\ epochLog.saves = 0

\* C1 witness: a run that diverged on the first batch of an epoch that was not the
\* last one has returned normally.
C1_Witness ==
    /\ flags.bad_loss
    /\ pc = "idle" /\ result = "returned"
    /\ batch_idx + 1 < NumBatches
    /\ epoch + 1 < args.max_epoch

\* C4: in every epoch whose training ended without divergence or stop, test() has
\* been invoked exactly once after the evaluation step if
\* ((epoch+1 >= start_eval) and (eval_freq > 0) and ((epoch+1) % eval_freq == 0)
\* and epoch+1 != max_epoch) or (epoch == max_epoch-1), and not at all otherwise,
\* and never before the evaluation step; the final epoch is always evaluated.
C4_EvaluationCadence ==
    LET e == epoch
        due == \/ /\ e + 1 >= args.start_eval
                  /\ args.eval_freq > 0
                  /\ (e + 1) % args.eval_freq = 0
                  /\ e + 1 # args.max_epoch
               \/ e = args.max_epoch - 1
    IN  /\ pc \in {"forward_backward", "after_train", "evaluate"} => epochLog.tests = 0
        /\ pc \in {"update_lr", "trial_report", "checkpoint"} =>
              /\ epochLog.tests = (IF due THEN 1 ELSE 0)
              /\ e = args.max_epoch - 1 => epochLog.tests = 1

\* C4 witness: the final epoch has been evaluated in a run with eval_freq = -1,
\* after an earlier epoch of the same run that was not.
C4_Witness ==
    /\ pc = "update_lr"
    /\ args.eval_freq = -1
    /\ epoch > args.start_epoch
    /\ epochLog.tests = 1

\* C5: once the stop signal has read true at the poll after a batch, no further
\* forward_backward call is started and the run leaves the epoch loop without
\* evaluating, stepping the per-epoch scheduler or saving a checkpoint in that
\* epoch, and returns normally; the same holds once it has read true at the poll
\* after train(); and every forward_backward call that was started has returned
\* (a batch is never interrupted).
C5_StopIsPolled ==
    /\ flags.stop_batch =>
          /\ pc = "after_train" \/ LoopLeftNormally
          /\ calls.fb = calls.ret
          /\ calls.ret = calls.done + 1
    /\ flags.stop_batch \/ flags.stop_epoch =>
          /\ pc = "after_train" \/ LoopLeftNormally
          /\ epochLog.tests = 0 /\ epochLog.lr_steps = 0 /\ epochLog.saves = 0
    /\ calls.fb = calls.ret + (IF pc = "forward_backward" THEN 1 ELSE 0)

\* C5 witness: the signal was raised while the first batch of a non-final epoch was
\* in forward_backward; that batch completed and run() has returned.
C5_Witness ==
    /\ flags.stop_batch
    /\ pc = "idle" /\ result = "returned"
    /\ batch_idx = 0 /\ calls.ret >= 1
    /\ epoch + 1 < args.max_epoch

\* the target metric run() hands to update_lr, read off the meters
MetricNow ==
    IF target_metric = "test_acc" THEN MeterAvg(test_acc) ELSE MeterAvg(losses)

\* the argument scheduler n gets at a step: the metric for plateau and warmup
\* schedulers, none for the others
ArgFor(n, metric) ==
    IF scheds[n] \in {"ReduceLROnPlateauV2", "WarmupScheduler"}
    THEN <<"metrics", metric>> ELSE <<"noarg", NoneMetric>>

\* C6 as stated: each registered scheduler has been stepped at epoch level once
\* per epoch that reached the LR update if the run is not in LR-finder mode and
\* that scheduler does not anneal per batch, and never otherwise.
C6_Original ==
    \A n \in Names : scheds[n] # "None" =>
        schedLog[n].epoch =
            (IF args.lr_finder = "none"
                /\ scheds[n] \notin {"CosineAnnealingCycleRestart", "OneCycleLR"}
             THEN calls.upd ELSE 0)

\* C6 amended: the scheduler of the main model decides for all of them.  Each
\* registered scheduler (not None) has been stepped at epoch level once per epoch
\* that reached the LR update if the run is not in LR-finder mode and the main
\* model's scheduler does not anneal per batch, and never otherwise; right after
\* such a step a plateau or warmup scheduler holds the target metric (the epoch's
\* average training loss, or the smoothed test accuracy) and any other scheduler
\* was stepped without argument.
C6_EpochLevelStep ==
    LET stepping == /\ args.lr_finder = "none"
                    /\ scheds[models[1]] \notin {"CosineAnnealingCycleRestart", "OneCycleLR"}
    IN  \A n \in Names :
            /\ scheds[n] # "None" =>
                  schedLog[n].epoch = (IF stepping THEN calls.upd ELSE 0)
            /\ scheds[n] = "None" => schedLog[n].epoch = 0
            /\ (pc = "trial_report" /\ stepping /\ scheds[n] # "None") =>
                  schedLog[n].last = ArgFor(n, MetricNow)

\* C6 witness: two epochs have reached the LR update outside LR-finder mode; the
\* main plateau scheduler got the smoothed test accuracy twice, and the auxiliary
\* model's one-cycle scheduler, which anneals per batch, was stepped with it.
C6_Witness ==
    /\ pc = "trial_report"
    /\ Len(models) = 2
    /\ scheds[MAIN] = "ReduceLROnPlateauV2" /\ scheds[AUX] = "OneCycleLR"
    /\ target_metric = "test_acc"
    /\ args.lr_finder = "none"
    /\ schedLog[MAIN].epoch = 2 /\ schedLog[AUX].epoch = 2
    /\ test_acc.count >= 1 /\ test_acc.sum > 0

\* C7 as stated: with per-batch annealing every scheduler has been stepped once
\* per batch forward_backward has processed, and never at epoch level.
C7_Original ==
    per_batch_annealing =>
        \A n \in Names : scheds[n] # "None" =>
            schedLog[n].batch = calls.ret /\ schedLog[n].epoch = 0

\* C7 amended: with per-batch annealing every registered scheduler (not None) has
\* been stepped once per batch whose loop body ran to its end, that is, whose
\* forward_backward returned a finite main loss and after which the stop signal
\* was not observed; the batch that diverges or on which the stop is observed gets
\* no step; and no scheduler is stepped at epoch level.
C7_PerBatchStep ==
    per_batch_annealing =>
        \A n \in Names :
            /\ scheds[n] # "None" =>
                  schedLog[n].batch = calls.done /\ schedLog[n].epoch = 0
            /\ calls.done \in {calls.ret, calls.ret - 1}
            /\ calls.done < calls.ret => flags.bad_loss \/ flags.stop_batch

\* C7 witness: a per-batch run in which three batches were stepped and a fourth
\* was processed without a step, because the stop signal was observed after it.
C7_Witness ==
    /\ per_batch_annealing
    /\ flags.stop_batch
    /\ schedLog[MAIN].batch = NumBatches + 1
    /\ calls.ret = NumBatches + 2

\* C8 as stated: with EMA enabled the shadow has been updated once per batch
\* forward_backward has processed.
C8_Original == use_ema_decay => calls.ema = calls.ret

\* C8 amended: with EMA enabled and outside LR-finder mode the shadow has been
\* updated once per batch whose loop body ran to its end (finite main loss, no
\* stop observed at the poll after it), before the next batch starts; the batch
\* that diverges or on which the stop is observed brings no update, and in
\* LR-finder mode the shadow is never updated.
C8_EmaUpdate ==
    /\ use_ema_decay =>
          /\ calls.ema = (IF args.lr_finder = "none" THEN calls.done ELSE 0)
          /\ ema_model = calls.ema
    /\ ~use_ema_decay => calls.ema = 0 /\ ema_model = 0

\* C8 witness: three updates for three completed batches, the fourth batch being
\* in forward_backward.
C8_Witness ==
    /\ use_ema_decay
    /\ args.lr_finder = "none"
    /\ pc = "forward_backward"
    /\ calls.ema = NumBatches + 1 /\ calls.fb = NumBatches + 2


\* The state the main model, the main optimizer and the generator had before the
\* first run() of the search.
PreSearchState ==
    /\ state_dict = 0
    /\ optim = [lr |-> InitLr, steps |-> 0]
    /\ rng = Seeded(EngineSeed)

\* C2: in LR-finder mode other than 'fast_ai', after any sequence of run() trials
\* (each ending normally, by divergence or by a prune) the main model's state and
\* the main optimizer's state, learning rate included, equal their state before
\* the search began, and the generator is reseeded with the Engine's seed.
C2_Original ==
    (/\ pc = "idle"
     /\ runs >= 1
     /\ seen.modes = {"TPE"}
     /\ ~seen.aborted)
        => PreSearchState

LinkResolves(name) == name \in DOMAIN links /\ links[name] \in DOMAIN files

\* C9: after every save event, for each registered model the 'latest' link points
\* to the checkpoint written by the most recent save event and, once test() has
\* returned an accuracy, the 'best' link points to a checkpoint written at an
\* epoch whose evaluated accuracy is the highest seen so far.
C9_Original ==
    (args.lr_finder = "none" /\ epochLog.saves = 1) =>
        \A n \in Names :
            /\ LinkResolves(LinkName("latest", n))
            /\ files[links[LinkName("latest", n)]].at = seen.last_save
            /\ seen.at # {} =>
                  /\ LinkResolves(LinkName("best", n))
                  /\ files[links[LinkName("best", n)]].at \in seen.at

\* C10: once a latest/best link has been created, at every intermediate point of
\* every later save_model call, and after an interruption between two of its
\* steps, the link exists and points to a written checkpoint file.
C10_Original == \A name \in sv.created : LinkResolves(name)

\* C11: the base Engine's exit_on_plateau_and_choose_best returns should_exit
\* false whatever the accuracy and the state; it returns the best-candidate flag
\* true exactly when the accuracy rounded to 4 decimals is at least best_metric
\* as it was before the call, and then best_metric becomes the rounded value;
\* otherwise best_metric is unchanged.
C11_PlateauHook ==
    [][(pc = "checkpoint" /\ pc' # pc /\ args.lr_finder = "none" /\ ~hook_overridden) =>
         LET cur == Round4(accuracy)
         IN  /\ cur % 10 = 0 /\ cur - accuracy \in -5..5
             /\ epochLog'.hook[1] = FALSE
             /\ epochLog'.hook[2] = (cur >= best_metric)
             /\ best_metric' = IF cur >= best_metric THEN cur ELSE best_metric]_vars

\* the hook has just run with an accuracy that rounds to best_metric exactly, after
\* an earlier epoch had set best_metric above zero
C11_Witness ==
    /\ epochLog.hook = <<FALSE, TRUE>>
    /\ epoch > args.start_epoch
    /\ best_metric > 0
    /\ best_metric = Round4(accuracy)
    /\ accuracy # best_metric

\* C12: with early stopping enabled, when the hook signals an exit at an epoch,
\* run() leaves the loop after that epoch's checkpoint step if and only if no
\* compression controller is attached or the controller's stage is fully
\* compressed; otherwise the next epoch follows.  With early stopping disabled
\* the hook's signal never ends the run.
C12_EarlyStop ==
    (epochLog.hook # <<>> /\ pc \in {"epoch_begin", "loop_exit"}) =>
        /\ (early_stopping /\ epochLog.hook[1]) =>
              /\ epochLog.broke <=>
                    (compression_ctrl = "None" \/ epochLog.stage = "FULLY_COMPRESSED")
              /\ epochLog.broke => pc = "loop_exit"
              /\ ~epochLog.broke => (pc = "epoch_begin" \/ epoch = args.max_epoch - 1)
        /\ ~early_stopping => ~epochLog.broke
        /\ (~epochLog.broke /\ pc = "loop_exit") => epoch = args.max_epoch - 1

\* the hook signalled an exit with a controller that is not fully compressed, and
\* training went on to the next epoch
C12_Witness ==
    /\ early_stopping /\ epochLog.hook # <<>> /\ epochLog.hook[1]
    /\ compression_ctrl = "ctrl" /\ epochLog.stage = "PARTIALLY_COMPRESSED"
    /\ pc = "epoch_begin"

\* C13: after a test() that evaluated both the main model and its EMA shadow,
\* the accuracy run() holds is the higher of the two scores, and the main
\* model's checkpoint saved for that epoch holds the EMA weights if and only if
\* the EMA score is strictly higher (on a tie it holds the main model's weights).
C13_EmaChoice ==
    epochLog.scores # <<>> =>
        LET main == epochLog.scores[1]
            ema == epochLog.scores[2]
        IN  /\ accuracy = IF ema > main THEN ema ELSE main
            /\ should_save_ema_model <=> ema > main
            /\ epochLog.saves = 1 =>
                  LET ckpt == files[links[LinkName("latest", main_model_name)]]
                  IN  /\ ckpt.at = seen.last_save
                      /\ ckpt.state_dict[1] = IF ema > main THEN "ema" ELSE "model"

\* both models scored the same above zero and the epoch's checkpoint was written
C13_Witness ==
    /\ epochLog.scores # <<>>
    /\ epochLog.scores[1] = epochLog.scores[2]
    /\ epochLog.scores[1] > 0
    /\ epochLog.saves = 1
    /\ files[links[LinkName("latest", main_model_name)]].state_dict[1] = "model"

\* the EMA model scored strictly higher and its weights were written as the
\* main model's checkpoint
C13_WitnessEma ==
    /\ epochLog.scores # <<>>
    /\ epochLog.scores[2] > epochLog.scores[1]
    /\ epochLog.saves = 1
    /\ files[links[LinkName("latest", main_model_name)]].state_dict[1] = "ema"

\* The sequence 0.9, 0.8, 0.7 and the falling sequence of the accuracies test()
\* returns here leave the tracked average at the first value.
FallingSequencesKeepFirst ==
    /\ TrackerFeed(NewMeter, <<90000, 80000, 70000>>) = [sum |-> 90000, count |-> 1]
    /\ TrackerFeed(NewMeter, <<14, 6, 0>>) = [sum |-> 14, count |-> 1]

\* C14: the smoothed test-accuracy tracker of run() takes in an epoch's accuracy
\* only when it is greater than or equal to the tracker's current average (zero
\* before the first value) and is unchanged otherwise; feeding 0.9, 0.8, 0.7
\* leaves the tracked average at 0.9.
C14_TrackerRatchet ==
    [][/\ FallingSequencesKeepFirst
       /\ (pc = "evaluate" /\ pc' # pc) =>
            LET geq == IF test_acc.count = 0 THEN accuracy' >= 0
                       ELSE accuracy' * test_acc.count >= test_acc.sum
            IN  /\ geq => test_acc' = [sum |-> test_acc.sum + accuracy',
                                      count |-> test_acc.count + 1]
                /\ ~geq => test_acc' = test_acc]_vars

\* an epoch's accuracy was below the tracked average and was left out
C14_Witness ==
    /\ pc = "update_lr"
    /\ test_acc.count >= 1
    /\ epochLog.tests = 1
    /\ accuracy * test_acc.count < test_acc.sum

\* Epoch e lies inside the interval: not before a non-null first bound and not
\* after a non-null last bound.
InsideInterval(iv, e) ==
    /\ (iv[1] # <<>> => iv[1][1] <= e)
    /\ (iv[2] # <<>> => e <= iv[2][1])

\* The value the interval assigns to epoch e.
IntervalValue(iv, e) == IF InsideInterval(iv, e) THEN iv[3] ELSE iv[4]

\* C15, as stated: for an Engine configured with a freeze interval, the freeze
\* decision for an epoch inside the interval is value_inside and for an epoch
\* outside it value_outside, a null bound leaving that side unbounded.
C15_Original ==
    (decision.epoch >= 0 /\ epoch_interval_for_aux_model_freeze # <<>>) =>
        decision.res =
            <<IntervalValue(epoch_interval_for_aux_model_freeze, decision.epoch)>>

\* C15, amended: the decision is the interval's value when should_freeze_aux_models
\* is set and at least one bound is not null; it is false for every epoch when
\* should_freeze_aux_models is not set, whatever the interval; and with both
\* bounds null (and the flag set) the call raises instead of answering.
C15_FreezeDecision ==
    (decision.epoch >= 0 /\ epoch_interval_for_aux_model_freeze # <<>>) =>
        LET iv == epoch_interval_for_aux_model_freeze
        IN  IF ~should_freeze_aux_models THEN decision.res = <<FALSE>>
            ELSE IF iv[1] = <<>> /\ iv[2] = <<>> THEN decision.res = <<>>
            ELSE decision.res = <<IntervalValue(iv, decision.epoch)>>

\* an epoch equal to both bounds of the interval got value_inside, which differs
\* from value_outside
C15_Witness ==
    /\ should_freeze_aux_models
    /\ epoch_interval_for_aux_model_freeze = <<<<1>>, <<1>>, TRUE, FALSE>>
    /\ decision = [epoch |-> 1, res |-> <<TRUE>>]

\* The freeze interval has both bounds null.
BothBoundsNull ==
    /\ epoch_interval_for_aux_model_freeze # <<>>
    /\ epoch_interval_for_aux_model_freeze[1] = <<>>
    /\ epoch_interval_for_aux_model_freeze[2] = <<>>

\* C16: an EpochIntervalToValue with both bounds null is rejected at construction
\* or at entry to run(): no forward_backward call is ever made, and a run() call
\* that is over has ended with the failure raised to the caller.
C16_Original ==
    BothBoundsNull =>
        /\ calls.fb = 0
        /\ (pc = "idle" /\ runs >= 1) => result \notin {"returned"}

\* The second half of C16 alone, for an Engine whose freeze flag is set: the
\* failure reaches the caller of run().
C16_Swallowed ==
    (BothBoundsNull /\ should_freeze_aux_models /\ pc = "idle" /\ runs >= 1)
        => result \notin {"returned"}

\* C19: when an epoch's batch loop starts, every aux model is in evaluation mode
\* with no parameter requiring gradients if the freeze decision for the epoch is
\* true, and in training mode with its parameters requiring gradients if it is
\* false; the main model is in training mode with its parameters requiring
\* gradients either way.
C19_FreezeModes ==
    (pc = "forward_backward" /\ batch_idx = 0) =>
        /\ decision.epoch = epoch
        /\ decision.res # <<>>
        /\ mode[main_model_name] = [training |-> TRUE, grad |-> TRUE]
        /\ \A n \in Names \ {main_model_name} :
              mode[n] = IF decision.res[1]
                        THEN [training |-> FALSE, grad |-> FALSE]
                        ELSE [training |-> TRUE, grad |-> TRUE]

\* the batch loop of epoch 2 starts with the aux model unfrozen again, after it was
\* frozen for epoch 1 and unfrozen for epoch 0
C19_Witness ==
    /\ pc = "forward_backward" /\ batch_idx = 0
    /\ epoch = 2
    /\ should_freeze_aux_models
    /\ epoch_interval_for_aux_model_freeze = <<<<1>>, <<1>>, TRUE, FALSE>>
    /\ decision = [epoch |-> 2, res |-> <<FALSE>>]
    /\ mode[AUX] = [training |-> TRUE, grad |-> TRUE]

\* C17: run() called with eval_freq other than 1 while early stopping is enabled
\* or the target metric is 'test_acc' fails at entry with an AssertionError,
\* before any forward_backward call.
C17_EvalFreqAsserted ==
    (/\ runs >= 1
     /\ args.eval_freq # 1
     /\ (early_stopping \/ target_metric = "test_acc"))
        => /\ pc = "idle"
           /\ result = "AssertionError"
           /\ calls.fb = 0

\* the assertion on eval_freq failed for the target metric alone
C17_Witness ==
    /\ runs = 1 /\ pc = "idle" /\ result = "AssertionError"
    /\ args.eval_freq = 2
    /\ args.start_epoch # args.max_epoch
    /\ target_metric = "test_acc" /\ ~early_stopping

\* C18, as stated: any exception raised inside forward_backward is caught by run()
\* and ends the run() call early with a normal return; it never reaches the caller.
C18_Original ==
    flags.exc # "" => LoopLeftNormally

\* C18, amended: a RuntimeError (or an exception of a subclass of it) raised inside
\* forward_backward is caught by run(), no further forward_backward call is made
\* and run() returns normally; an exception of any other class leaves run() and
\* reaches the caller.
C18_RuntimeErrorCaught ==
    flags.exc # "" =>
        /\ calls.fb = calls.ret + 1
        /\ IF flags.exc \in {"RuntimeError", "NotImplementedError"}
           THEN LoopLeftNormally
           ELSE pc = "idle" /\ result = flags.exc

\* a RuntimeError raised in a later batch of a later epoch, and run() has returned
C18_Witness ==
    /\ flags.exc = "RuntimeError"
    /\ pc = "idle" /\ result = "returned"
    /\ epoch > 0 /\ batch_idx > 0

\* The run() call in progress is in LR-finder mode with a trial object.
WithTrial == args.lr_finder # "none" /\ args.trial # <<>>

C22_RegistryOrder ==
    registry.models # <<>> =>
        LET k == Keys(registry.models[1])
        IN  /\ Len(k) >= 1
            /\ Keys(registry.optims[1]) = k
            /\ Keys(registry.scheds[1]) = k
            /\ \A i, j \in 1..Len(k) : k[i] = k[j] => i = j
            /\ get_model_names(registry, <<>>) = <<"ok", k>>
            /\ registry.main_model_name = <<k[1]>>
            /\ models = k

\* the main model was registered again after a third model had been added, and
\* is still the first of three names
C22_Witness ==
    /\ registry.models # <<>>
    /\ Len(registry.models[1]) = 3
    /\ registry.models[1][1][1] = MAIN
    /\ registry.models[1][1][2] >= 10
    /\ registry.models[1][3][1] = "extra_model"
    /\ regLog.op = "register_model" /\ regLog.name = MAIN

\* What a get_model_names call on a constructed Engine answers, when an unknown
\* name makes it fail with the exception err: without argument all registered
\* names in insertion order; with a requested name or list of names, those names
\* as requested if every one is registered and the failure otherwise; the
\* registries are the same after the call.
GetNamesContract(err) ==
    (regLog'.n = regLog.n + 1 /\ regLog'.op = "get_model_names"
     /\ registry.models # <<>>) =>
         LET k == Keys(registry.models[1])
             req == regLog'.req
             asked == IF req[1] = "list" THEN req[2] ELSE <<req[2]>>
         IN  /\ registry' = registry
             /\ models' = models
             /\ IF req = <<>> THEN regLog'.res = <<"ok", k>>
                ELSE IF \A i \in 1..Len(asked) : asked[i] \in Names
                THEN regLog'.res = <<"ok", asked>>
                ELSE regLog'.res[1] = err

\* C23, as stated: a request that names an unknown model fails with a LookupError.
C23_Original == [][GetNamesContract("LookupError")]_vars

\* C23, amended: a request that names an unknown model fails with the
\* AssertionError of the assert statement that validates the names.
C23_SubsetChecked == [][GetNamesContract("AssertionError")]_vars

\* a list naming the main model and a model that is not registered was refused,
\* on an Engine that had a model registered after construction
C23_Witness ==
    /\ regLog.op = "get_model_names"
    /\ regLog.req = <<"list", <<MAIN, "extra_model">>>>
    /\ regLog.res[1] = "AssertionError"
    /\ regLog.n = 2
    /\ Names = {MAIN, AUX}

\* What a register_model call does, when a call made before the registries exist
\* fails with the exception err: such a call fails and registers nothing; a call
\* on a constructed Engine puts the model, the optimizer and the scheduler under
\* the given name in the three registries, leaves every other entry as it was,
\* and appends the name when it is new.
RegisterContract(err) ==
    (regLog'.n = regLog.n + 1 /\ regLog'.op = "register_model") =>
         IF registry.models = <<>> \/ registry.optims = <<>> \/ registry.scheds = <<>>
         THEN /\ regLog'.res[1] = err
              /\ registry' = registry
              /\ models' = models
         ELSE LET name == regLog'.name
                  Put(old, new, v) ==
                      /\ \E i \in 1..Len(new) : new[i] = <<name, v>>
                      /\ \A i \in 1..Len(old) : old[i][1] # name => new[i] = old[i]
                      /\ Len(new) = Len(old) + (IF name \in Names THEN 0 ELSE 1)
              IN  /\ regLog'.res[1] = "none"
                  /\ Put(registry.models[1], registry'.models[1], regLog'.handle)
                  /\ Put(registry.optims[1], registry'.optims[1], regLog'.handle)
                  /\ Put(registry.scheds[1], registry'.scheds[1], regLog'.kind)
                  /\ registry'.main_model_name = registry.main_model_name

\* C24, as stated: the early call fails with a ConfigurationError.
C24_Original == [][RegisterContract("ConfigurationError")]_vars

\* C24, amended: the early call fails with an AttributeError.
C24_RegisterGuard == [][RegisterContract("AttributeError")]_vars

\* a second register_model call was refused on an Engine that is not set up, and
\* nothing is registered
C24_Witness ==
    /\ regLog.op = "register_model"
    /\ regLog.res[1] = "AttributeError"
    /\ regLog.n = 2
    /\ registry = NoRegistry
    /\ models = <<>>

\* C25: when the batch loop of epoch e starts, the random generator is in the
\* state of a generator freshly seeded with base seed + e, whatever was drawn or
\* reseeded before in the run: the state depends on the base seed and e only.
C25_EpochSeed ==
    (pc = "forward_backward" /\ batch_idx = 0) =>
        rng = [seed |-> args.initial_seed + epoch, draws |-> 0]

\* the second epoch of a run with another base seed starts, after the batches of
\* the first epoch have drawn from the generator
C25_Witness ==
    /\ pc = "forward_backward" /\ batch_idx = 0
    /\ epoch = 1
    /\ args.initial_seed = InitialSeed + 2
    /\ calls.done = NumBatches
    /\ rng = [seed |-> InitialSeed + 3, draws |-> 0]

\* C26: after every _apply_batch_augmentation call with aug_type mixup, cutmix or
\* fmix: if the augmentation was applied (alpha > 0 and the draw did not exceed
\* aug_prob), lam and aug_index hold the mixing coefficient and the permutation of
\* that batch; if not, the batch is returned as it was passed and both are None;
\* lam is set exactly when aug_index is.
C26_AugRecorded ==
    (augLog.n >= 1 /\ aug_type \in {"mixup", "cutmix", "fmix"}) =>
        /\ (lam = <<>>) <=> (aug_index = <<>>)
        /\ IF augLog.applied
           THEN /\ aug_index = <<augLog.d[1].index>>
                /\ lam # <<>>
                /\ aug_type = "mixup" => lam[1] = <<augLog.d[1].lam, LamDen>>
                /\ aug_type = "fmix" =>
                      lam[1] = <<Cardinality(augLog.d[1].mask), ImgW * ImgH>>
                /\ aug_type = "cutmix" =>
                      lam[1][1] = ImgW * ImgH - (augLog.box.bbx2 - augLog.box.bbx1)
                                                 * (augLog.box.bby2 - augLog.box.bby1)
           ELSE /\ augLog.imgs = InputBatch
                /\ lam = <<>>
                /\ aug_index = <<>>

\* the second call on an Engine skipped the augmentation because the draw exceeded
\* aug_prob, and cleared what the first call had recorded
C26_Witness ==
    /\ augLog.n = 2 /\ augLog.prev
    /\ aug_type = "mixup" /\ alpha > 0 /\ aug_prob = 5
    /\ augLog.r = 9
    /\ ~augLog.applied
    /\ lam = <<>> /\ aug_index = <<>>
    /\ augLog.imgs = InputBatch

\* C27: after a cutmix that was applied, the box lies within the image with
\* bbx1 <= bbx2 and bby1 <= bby2, the recorded lam is 1 minus the box's area over
\* the image area, which is the share of each image that was not replaced, lam is
\* in [0, 1], and lam is 0.75 when the box spans half of each spatial dimension.
C27_CutmixLam ==
    (augLog.n >= 1 /\ aug_type = "cutmix" /\ augLog.applied) =>
        LET b == augLog.box
            area == (b.bbx2 - b.bbx1) * (b.bby2 - b.bby1)
            index == aug_index[1]
        IN  /\ 0 <= b.bbx1 /\ b.bbx1 <= b.bbx2 /\ b.bbx2 <= ImgW
            /\ 0 <= b.bby1 /\ b.bby1 <= b.bby2 /\ b.bby2 <= ImgH
            /\ lam[1][2] = ImgW * ImgH
            /\ lam[1][1] = lam[1][2] - area
            /\ 0 <= lam[1][1] /\ lam[1][1] <= lam[1][2]
            /\ \A i \in 1..BatchSize : index[i] # i =>
                  area = Cardinality({p \in Pixels :
                                         augLog.imgs[i][p] = InputBatch[index[i]][p]})
            /\ (2 * (b.bbx2 - b.bbx1) = ImgW /\ 2 * (b.bby2 - b.bby1) = ImgH)
                  => 4 * lam[1][1] = 3 * lam[1][2]

\* a box of half the width and half the height was pasted from the other image
\* and lam is 0.75, after a draw of lam other than 0.75
C27_Witness ==
    /\ augLog.n >= 1 /\ aug_type = "cutmix" /\ augLog.applied
    /\ 2 * (augLog.box.bbx2 - augLog.box.bbx1) = ImgW
    /\ 2 * (augLog.box.bby2 - augLog.box.bby1) = ImgH
    /\ 4 * lam[1][1] = 3 * lam[1][2]
    /\ aug_index[1][1] = 2
    /\ 4 * augLog.d[1].lam # 3 * LamDen

\* The steps that may follow each step of run().
StepsAfter(step) ==
    CASE step = "idle" -> {"epoch_begin", "loop_exit"}
      [] step = "epoch_begin" -> {"forward_backward", "loop_exit"}
      [] step = "forward_backward" -> {"after_train", "loop_exit", "idle"}
      [] step = "after_train" -> {"evaluate", "loop_exit"}
      [] step = "evaluate" -> {"update_lr"}
      [] step = "update_lr" -> {"trial_report"}
      [] step = "trial_report" -> {"checkpoint", "idle"}
      [] step = "checkpoint" -> {"epoch_begin", "loop_exit"}
      [] step = "loop_exit" -> {"idle"}

\* C28: within every epoch of run() the steps come in the order batch loop,
\* evaluation (when it runs), epoch-level LR update, checkpointing, then the next
\* epoch or the end of the loop; the epoch number advances only as the checkpoint
\* step finishes; and a checkpoint written in an epoch holds each scheduler as it
\* is after that epoch's LR update.
C28_StepOrder ==
    [][pc' # pc =>
        /\ pc' \in StepsAfter(pc)
        /\ pc' = "evaluate" => calls.done = NumBatches * (epoch - args.start_epoch + 1)
        /\ pc = "evaluate" => epochLog.lr_steps = 0 /\ epochLog.saves = 0
        /\ pc = "update_lr" =>
              /\ epochLog.saves = 0
              /\ epochLog.tests = IF ShouldEvaluate(epoch, args.start_eval,
                                                    args.eval_freq, args.max_epoch)
                                  THEN 1 ELSE 0
        /\ (pc # "idle" /\ epoch' # epoch) =>
              pc = "checkpoint" /\ epoch' = epoch + 1 /\ pc' = "epoch_begin"
        /\ epochLog'.saves > epochLog.saves =>
              /\ pc = "checkpoint"
              /\ epochLog.lr_steps = IF per_batch_annealing THEN 0 ELSE 1
              /\ \A n \in Names :
                    files'[links'[LinkName("latest", n)]].scheduler
                        = IF scheds[n] = "None" THEN 0
                          ELSE IF per_batch_annealing THEN calls.done
                          ELSE epoch - args.start_epoch + 1]_vars

\* the second epoch of a run has evaluated, then stepped the scheduler, then
\* written a checkpoint that holds the scheduler after its second step
C28_Witness ==
    /\ pc = "loop_exit"
    /\ epoch - args.start_epoch = 1
    /\ epochLog.tests = 1 /\ epochLog.lr_steps = 1 /\ epochLog.saves = 1
    /\ CkptPath(MAIN, epoch + 1) \in DOMAIN files
    /\ files[CkptPath(MAIN, epoch + 1)].scheduler = 2

C30_Original ==
    [][(pc # "idle" /\ args.lr_finder # "none")
        => /\ files' = files /\ links' = links
           /\ best_metric' = best_metric
           /\ ema_model' = ema_model
           /\ schedLog' = schedLog]_vars

\* C31: a run() call that fails an entry assertion leaves the main optimizer's
\* learning rate, the set of learning rates already tried and the cached snapshot
\* as they were before the call.
C31_Original ==
    [][(pc = "idle" /\ runs' = runs + 1 /\ result' = "AssertionError")
        => /\ optim'.lr = optim.lr
           /\ param_history' = param_history
           /\ cached' = cached]_vars

\* C32: accuracy and the EMA selection flag are 0 and false when run() starts and
\* change only in an evaluation; in an epoch without evaluation the tracker is fed
\* the value carried over, the trial is reported that value, the epoch is flagged
\* best candidate exactly when that value rounded to 4 places is >= best_metric,
\* and the checkpoint holds the EMA weights exactly when the carried flag is set.
C32_CarriedAccuracy ==
    [][/\ (accuracy' # accuracy \/ should_save_ema_model' # should_save_ema_model)
             => \/ pc = "idle" /\ accuracy' = 0 /\ ~should_save_ema_model'
                \/ pc = "evaluate" /\ epochLog'.tests = epochLog.tests + 1
       /\ (pc = "idle" /\ runs' = runs + 1) => accuracy' = 0 /\ ~should_save_ema_model'
       /\ (pc = "evaluate" /\ pc' # pc /\ epochLog'.tests = 0)
             => test_acc' = IF accuracy * test_acc.count >= test_acc.sum
                            THEN [sum |-> test_acc.sum + accuracy,
                                  count |-> test_acc.count + 1]
                            ELSE test_acc
       /\ (pc = "trial_report" /\ pc' # pc /\ epochLog.tests = 0 /\ args.trial # <<>>)
             => epochLog'.report[1] = accuracy
       /\ (pc = "checkpoint" /\ pc' # pc /\ epochLog.tests = 0
           /\ args.lr_finder = "none")
             => /\ epochLog'.hook[2] <=> (Round4(accuracy) >= best_metric)
                /\ epochLog'.saves = 1
                /\ LinkName("best", MAIN) \in DOMAIN links' /\
                   links'[LinkName("best", MAIN)] = CkptPath(MAIN, epoch + 1)
                      <=> epochLog'.hook[2]
                /\ files'[CkptPath(MAIN, epoch + 1)].state_dict[1] = "ema"
                      <=> should_save_ema_model]_vars

\* an epoch without evaluation carried over a positive accuracy measured on the
\* EMA model, was flagged best candidate and saved the EMA weights
C32_Witness ==
    /\ epochLog.tests = 0 /\ epochLog.saves = 1
    /\ epochLog.hook # <<>> /\ epochLog.hook[2]
    /\ accuracy > 0 /\ should_save_ema_model
    /\ CkptPath(MAIN, epoch) \in DOMAIN files
    /\ files[CkptPath(MAIN, epoch)].state_dict[1] = "ema"
    /\ files[CkptPath(MAIN, epoch)].at = <<runs, epoch - 1>>

\* the greatest of the scores test() has put on its top1 list
MaxCounted(ev) ==
    LET counted == {ev[i][2] : i \in {j \in 1..Len(ev) : ev[j][1] \in {MAIN, "EMA model"}}}
    IN  CHOOSE v \in counted : \A w \in counted : w <= v

\* C33: every test() evaluates the main model; it evaluates an auxiliary model
\* exactly when the call is test-only or the epoch is the last one of the run; and
\* the accuracy run() receives from it is the greatest score over the main and the
\* EMA model, whatever an auxiliary model scored.
C33_AuxEvaluation ==
    [][((pc = "evaluate" /\ epochLog'.tests = epochLog.tests + 1)
        \/ (pc = "idle" /\ pc' = "idle" /\ epochLog'.test_only
            /\ epochLog' # epochLog))
        => LET ev == epochLog'.evaluated
               names == {ev[i][1] : i \in 1..Len(ev)}
           IN  /\ MAIN \in names
               /\ \A n \in Names \ {MAIN} :
                     n \in names <=> (epochLog'.test_only \/ epoch = args.max_epoch - 1)
               /\ "EMA model" \in names <=>
                     (use_ema_decay /\ args.lr_finder = "none" /\ ~epochLog'.test_only)
               /\ pc = "evaluate" => accuracy' = MaxCounted(ev)]_vars

\* an evaluation before the last epoch skipped the auxiliary model and returned
\* the EMA model's score, ...
C33_Witness ==
    /\ pc = "update_lr"
    /\ epoch < args.max_epoch - 1
    /\ epochLog.tests = 1
    /\ Len(epochLog.evaluated) = 2
    /\ epochLog.evaluated[2][1] = "EMA model"
    /\ accuracy = epochLog.evaluated[2][2]
    /\ accuracy > epochLog.evaluated[1][2]

\* ... and the evaluation of the last epoch included it, with a score above the
\* accuracy returned
C33_WitnessFinal ==
    /\ pc = "update_lr"
    /\ epoch = args.max_epoch - 1
    /\ \E i \in 1..Len(epochLog.evaluated) :
          epochLog.evaluated[i][1] = AUX /\ epochLog.evaluated[i][2] > accuracy

\* C34: best_metric never decreases, within a run() and from one run() to the
\* next, and when a run() outside LR-finder mode returns (accuracy, best_metric),
\* best_metric is at least the accuracy rounded to 4 places, however the epoch loop
\* ended.
C34_BestMetricMonotone ==
    [][/\ best_metric' >= best_metric
       /\ (pc = "loop_exit" /\ pc' = "idle" /\ result' = "returned"
           /\ args.lr_finder = "none")
             => best_metric' >= Round4(accuracy')]_vars

\* a second run() returned after an evaluation whose accuracy was below the
\* best_metric the first run() had left
C34_Witness ==
    /\ pc = "idle" /\ runs = 2 /\ result = "returned"
    /\ args.lr_finder = "none"
    /\ epochLog.tests = 1
    /\ best_metric > Round4(accuracy)

\* C35: the flag run() passes to save_model as should_save_ema_model is true only
\* on an Engine with use_ema_decay, so the assertion of save_model holds at every
\* save and only such an Engine writes EMA weights into a checkpoint.
C35_EmaFlagGuarded ==
    /\ should_save_ema_model => use_ema_decay
    /\ \A p \in DOMAIN files : files[p].state_dict[1] = "ema" => use_ema_decay

\* a save was made with the flag set, on an Engine with EMA
C35_Witness ==
    /\ should_save_ema_model /\ use_ema_decay
    /\ epochLog.saves = 1
    /\ \E p \in DOMAIN files :
          files[p].state_dict[1] = "ema" /\ files[p].at[1] = runs

\* C36: _finalize_training is called only after the epoch loop has ended and at
\* most once in a run(); a run() that returns has called it exactly once, and a
\* run() left by an exception (failed entry assertion, prune signal, an exception
\* run() does not catch) has not called it.
C36_FinalizeOnce ==
    [][/\ (pc # "idle" /\ calls'.finalize # calls.finalize)
             => pc = "loop_exit" /\ calls.finalize = 0 /\ calls'.finalize = 1
       /\ pc' = "idle" /\ (pc # "idle" \/ runs' = runs + 1)
             => calls'.finalize = IF result' = "returned" THEN 1 ELSE 0]_vars

\* a run() that diverged returned after one call of _finalize_training, ...
C36_Witness ==
    /\ pc = "idle" /\ result = "returned"
    /\ flags.bad_loss
    /\ calls.finalize = 1

\* ... and one that was pruned after an epoch did not call it
C36_WitnessPruned ==
    /\ pc = "idle" /\ result = "TrialPruned"
    /\ calls.ret > 0
    /\ calls.finalize = 0

\* C37: a batch whose main loss is finite goes through the rest of the loop body
\* whatever the auxiliary loss is: when a NaN or infinite auxiliary loss is first
\* met with a finite main loss, the run does not leave the loop for a divergence
\* and the batch's losses are added to the meters; the loop is left for a
\* divergence only on a NaN or infinite main loss.
C37_MainLossOnly ==
    [][(pc = "forward_backward" /\ calls'.ret = calls.ret + 1)
        => /\ (~epochLog.aux.bad /\ epochLog'.aux.bad)
                 => /\ ~flags'.bad_loss
                    /\ pc' \in {"forward_backward", "after_train"}
                    /\ losses'.count = losses.count + 1
                    /\ epochLog'.aux.n = epochLog.aux.n + 1
                    /\ calls'.done = calls.done + (IF flags'.stop_batch THEN 0 ELSE 1)
           /\ pc' = "loop_exit" => flags'.bad_loss \/ flags'.stop_batch]_vars

\* training went on to the evaluation of an epoch in which an auxiliary loss was
\* NaN or infinite
C37_Witness ==
    /\ pc = "evaluate"
    /\ epochLog.aux.bad /\ ~flags.bad_loss
    /\ epochLog.aux.n = NumBatches
    /\ losses.count = NumBatches

\* C38: a trial whose proposal passes the duplicate check and that goes on to
\* train does so with an optimizer learning rate that no earlier trial of the
\* search was given.
C38_Original ==
    [][(/\ pc = "idle"
        /\ runs' = runs + 1
        /\ args'.lr_finder # "none"
        /\ args'.trial # <<>>
        /\ args'.trial[1] \notin param_history
        /\ pc' = "epoch_begin")
           => \A h \in param_history : optim'.lr # Round6(h)]_vars

\* C39: every checkpoint file written by run() at epoch e records the epoch
\* number e + 1 when save_all_chkpts is set and the epoch number 1 when it is
\* unset, whatever e is; the file is stored under the number it records.
C39_RecordedEpoch ==
    \A p \in DOMAIN files :
        /\ files[p].epoch = IF save_all_chkpts THEN files[p].at[2] + 1 ELSE 1
        /\ p = CkptPath(p[1], files[p].epoch)

\* a best-only checkpoint written in the third epoch (e = 2) records epoch 1
C39_Witness ==
    /\ ~save_all_chkpts
    /\ pc = "idle" /\ result = "returned"
    /\ LinkResolves(LinkName("best", main_model_name))
    /\ files[links[LinkName("best", main_model_name)]].at[2] = 2
    /\ files[links[LinkName("best", main_model_name)]].epoch = 1

\* with save_all_chkpts the checkpoint of the third epoch records epoch 3
C39_WitnessAll ==
    /\ save_all_chkpts
    /\ pc = "idle" /\ result = "returned"
    /\ LinkResolves(LinkName("latest", main_model_name))
    /\ files[links[LinkName("latest", main_model_name)]].at[2] = 2
    /\ files[links[LinkName("latest", main_model_name)]].epoch = 3
====
